---- MODULE Spec2Model ----
(***************************************************************************)
(* Model of the deployment-and-remote-execution engine of ae3gis-backend:  *)
(* the console exit-status primitive (core/telnet_client.py), the script   *)
(* push engine (core/script_pusher.py), the batch endpoints                *)
(* (api/routers/scripts.py) and the priority-staged scheduler              *)
(* (api/routers/topologies.py, api/routers/scenarios.py).                  *)
(*                                                                         *)
(* Each subsystem has its own specification (SpecStatus, SpecPush,         *)
(* SpecMany, SpecRun, SpecSched); the variables of the other subsystems    *)
(* stay at their idle value.                                               *)
(***************************************************************************)
EXTENDS Integers, Sequences, FiniteSets, TLC

VARIABLES
    \* --- TelnetConsole.run_command_with_status ---
    rcRemote,    \* what the remote side will write: [echo, out, code, prompt]
    rcArrived,   \* number of characters read_for has collected so far
    rcPc,        \* "idle" | "reading" | "done"
    rcResult,    \* the returned (output, exit_code)
    \* --- ScriptPusher.push, called directly or by _execute_single_script ---
    pCaller,     \* "direct" | "topologies" | "scenarios"
    pNode,       \* the task's node in the config: "ok" | "missing" | "noconsole"
    pSpec,       \* the ScriptSpec handed to push
    pRemote,     \* the remote file: [exists, touched]
    pPc,         \* position inside push / _execute_single_script
    pConsole,    \* "none" | "open" | "closed"
    pSent,       \* the commands sent over the console so far
    pLocal,      \* push's locals: [probe_truncated, decode_exit, chmod_exit, fault]
    pResult,     \* None, or Some(ScriptPushResult)
    pSummary,    \* None, or Some(ScriptExecutionSummary)
    \* --- ScriptPusher.push_many ---
    mTasks,      \* number of tasks handed to push_many
    mConcurrency, \* the concurrency argument
    mSem,        \* value of the asyncio.Semaphore
    mPc,         \* per worker: "waiting" | "pushing" | "done" | "raised"
    mOutcome,    \* per worker: whether the returned upload succeeded
    \* --- run_scripts (POST /scripts/run) ---
    rItems,      \* per run item: its node in the config ("ok" | "missing" | "noconsole")
    rConcurrency, \* payload.concurrency
    rSem,        \* value of the asyncio.Semaphore
    rPc,         \* per item: "created" | "waiting" | "running" | "returned" | "raised"
    rExec,       \* per item: None, or Some(ScriptExecutionResult)
    rHandler,    \* "start" | "gathering" | "responded" | "failed"
    \* --- _execute_embedded_scripts and its caller ---
    sConfig,     \* config_record: node name -> "ok" | "missing" | "noconsole"
    sTasks,      \* the (node, script) pairs in definition order: [node, priority]
    sDelay,      \* whether priority_delay > 0
    sGroups,     \* priority_groups: sequence of sequences of task indices
    sGi,         \* number of groups gathered so far
    sPc,         \* "start" | "next" | "gather" | "returned" | "collected"
    sTaskPc,     \* per task: "idle" | "created" | "pushing" | "done"
    sSummary,    \* per task: None, or Some(ScriptExecutionSummary)
    sOpened,     \* the tasks that called push (asked for a console session)
    sSem,        \* value of the asyncio.Semaphore
    sSleeps,     \* number of inter-stage delays slept
    sResults,    \* results: sequence of [task, success, error]
    sErrors,     \* the deployment's errors list (task indices), by the caller
    sFlags,      \* the deploy request: [run_scripts, start_nodes]
    sSuccess     \* None, or Some(the success flag of the deploy response)

VARIABLES
    \* --- second part: project operations on the simulator ---
    \* --- execute_script (POST /scenarios/execute) ---
    xTargets,    \* per target: None (not in node_map), or Some(node info)
    xHandler,    \* "idle" | "start" | "gathering" | "responded" | "http404" | "http400" | "http502"
    xPc,         \* per target: "created" | "pushing" | "done"
    xSem,        \* value of the asyncio.Semaphore
    xOpened,     \* the targets for which push was called
    xResults,    \* per target: None, or Some(NodeExecutionResult)
    xResponse,   \* None, or Some(ExecuteScriptResponse)
    \* --- ScenarioBuilder.build ---
    bNames,      \* nodes_spec: the node names, in order
    bLinkCount,  \* number of link specs
    bStartNodes, \* the start_nodes argument
    bPc,         \* "idle" | "start" | "nodes" | "links" | "starting" | "details" | "linksdetail" | "built" | "failed"
    bNodeCalls,  \* node-creation calls issued
    bCreated,    \* node-creation calls completed (created_nodes)
    bNameToId,   \* name_to_id
    bAliasToId,  \* alias_to_id
    bLinkAttempts, \* create_link calls issued
    bLinks,      \* links created (created_links)
    bLastLink,   \* None, or Some(endpoint ids of the last link posted)
    bStarted,    \* start_node calls issued
    bDetails,    \* nodes_detail entries
    bWarnings,   \* number of warnings
    bRecord,     \* None, or Some([refetched, nodes, links]): whether the link refetch succeeded, the nodes of the config record, the links of links_detail
    \* --- LogCollector.setup_collectors ---
    kSwitch,     \* per role: whether the role's switch is in the project
    kNodes,      \* per role: number of project nodes named <student>-<role>-Collector
    kLinked,     \* per role: whether the collector was linked to its switch
    kCreatedIn,  \* per role: the invocation that created the node (0: none of them)
    kCall,       \* which invocation of setup_collectors this is (1, 2, ...)
    kAtStart,    \* the roles whose collector node existed when this invocation began
    kPc,         \* "idle" | "start" | "gathering" | "returned" | "raised"
    kRolePc,     \* per role: "idle" | "created" | "booting" | "syslog" | "done"
    kRoleResult, \* per role: None, or Some([snitch, errors, reused])
    kReturn,     \* None, or Some([snitch_nodes, errors, reused]) of this invocation
    kSyslog,     \* per role: None, or Some([starts, running]) of _ensure_syslog_running in this invocation
    kAddress,    \* per role: None, or Some([seen, dhcp, ip]) of _get_node_ip_address
    \* --- GNS3Client.delete_all_nodes and delete_project_nodes ---
    dLinkList,   \* the project's links: per link, whether it carries a link_id
    dNodeList,   \* the project's nodes: per node, whether it carries a node_id
    dPc,         \* "idle" | "stop" | "list_links" | "links" | "list_nodes" | "nodes" | "returned" | "raised" | "responded"
    dTrace,      \* the requests sent to the simulator, in order
    dIdx,        \* position of the running loop in its list
    dLinksDeleted, \* links_deleted
    dNodesDeleted, \* nodes_deleted
    dFailed,     \* the kinds of deletions ("link", "node") the simulator refused
    dErrors,     \* errors: the list returned to the caller
    dResponse,   \* None, or Some(DeleteNodesResponse)
    \* --- setup_logging and the StudentRepository ---
    lFiles,      \* the session files of the storage directory: [path, display_name, project_id]
    lPc,         \* per request: "idle" | "provisioning" | "done"
    lReq,        \* per request: None, or Some([name, project]) once it was received
    lSeen,       \* per request: existing_session, as read at the start of the request
    lProvisioned, \* per request: setup_logging_for_student was called
    lStatus,     \* per request: "" or the HTTP status of the response
    \* --- teardown_logging and LogCollector.delete_collector_nodes ---
    tNodes,      \* the names of the nodes of the session's project
    tSessions,   \* the students (sanitized names) with a stored session
    tSubmissions, \* the students (sanitized names) with stored submissions
    tStudent,    \* the sanitized student name of the request
    tPc,         \* "idle" | "listing" | "visiting" | "returned" | "responded" | "failed"
    tListed,     \* nodes: the names list_nodes returned
    tRemaining,  \* the listed names the loop has not visited yet
    tAttempted,  \* the names delete_node was called for
    tRefused,    \* the names whose delete_node did not delete the node
    tDeleted,    \* deleted: the names returned as removed
    tStatus,     \* "" or the HTTP status of the response
    \* --- retrieve_all_logs ---
    hStudent,    \* the sanitized student name of the session
    hSnitches,   \* snitch_nodes: the role ("IT", "OT", "DMZ") of each collector of the session
    hCapture,    \* per collector: "text" | "empty" | "unreachable", what its harvest meets
    hResults,    \* per collector: None, or Some(the tuple retrieve_single returned)
    hPc,         \* "running" | "returned"
    hLogs,       \* logs: collector type -> log content
    hErrors,     \* errors
    \* --- the gathers of the log collector: setup_collectors, inject_prompt_command, retrieve_all_logs ---
    fKind,       \* "collectors" | "inject" | "harvest": the fan-out that runs
    fTasks,      \* the number of coroutines handed to the gather
    fWaiting,    \* coroutines that wait for the semaphore (none when there is no semaphore)
    fActive,     \* coroutines that run and have not opened a console session yet
    fOpen,       \* coroutines inside their first 'async with TelnetConsole'
    fBetween,    \* coroutines that have closed their first session and go on
    fAgain,      \* coroutines inside their second 'async with TelnetConsole'
    fDone,       \* coroutines that have returned
    \* --- resolve_endpoint and ScenarioBuilder._create_links on one link spec ---
    eNames,      \* the names of the created nodes, in creation order
    eNameToId,   \* name_to_id after the node loop
    eAliasToId,  \* alias_to_id after the node loop
    eLink,       \* None, or Some(the link spec): two endpoints [ref, adapter_number, port_number]
    eResolved,   \* the results of the resolve_endpoint calls made for the link spec, in order
    eSent,       \* None, or Some(the nodes of the payload posted for the link spec)
    eSwapped,    \* None, or Some(the nodes of the payload posted for the link spec with its endpoints swapped)
    ePc,         \* "ready" | "built" | "both"
    \* --- LogCollector._find_available_port and _connect_to_switch ---
    aLinks,      \* the link endpoints of the project: [node, adapter_number]
    aChosen,     \* per call of _connect_to_switch: Some(the adapter chosen), or None when the scan raised
    aCreated,    \* per call of _connect_to_switch: whether a link was created
    \* --- LogCollector.inject_prompt_command ---
    jStudent,    \* the student whose collectors were provisioned
    jSnitches,   \* snitch_nodes: the roles of the collectors, in setup order
    jNodes,      \* list_nodes: [name, console_type, console]
    jPc,         \* position of inject_prompt_command
    jTaskPc,     \* per node: position of its inject_single_node coroutine
    jHeld,       \* permits of the semaphore that are held
    jAttempts,   \* per node: how often inject_single_node ran for it
    jConsole,    \* the nodes to which a console session was opened
    jTarget,     \* per node: Some(index of the snitch whose address was injected)
    jResult,     \* per node: Some(result of its coroutine)
    jInjected,   \* the injected list returned
    jSkipped,    \* the skipped list returned
    jErrors,     \* the errors list returned
    \* --- LogCollector._setup_single_collector, coroutines of one event loop ---
    vTasks,      \* the _setup_single_collector coroutines: [name, switch]
    vNodes,      \* the names of the collector nodes of the project, in creation order
    vLinks,      \* the links on switches: [node, adapter_number, peer]
    vPc,         \* per coroutine: "created" | "booting" | "done"
    vReused,     \* per coroutine: None, or Some(reused)
    \* --- open_console around the bodies of ScriptPusher.push and run ---
    oCaller,     \* "push" | "run"
    oPc,         \* "idle" | "enter" | "body" | "exit_write" | "writer_close" | "finally" | "leave" | "returned" | "raised"
    oWriter,     \* TelnetConsole._writer: "none" | "set"
    oWire,       \* the connection: "none" | "up" | "down" | "unknown"
    oExit,       \* None, or Some(how the body of the with block ended)
    oCloses,     \* calls of close that found a writer
    oSwallowed,  \* the steps of close that raised
    oResult      \* None, or Some(reason of the returned result)

rcVars == <<rcRemote, rcArrived, rcPc, rcResult>>

pVars == <<pCaller, pNode, pSpec, pRemote, pPc, pConsole, pSent, pLocal,
           pResult, pSummary>>

mVars == <<mTasks, mConcurrency, mSem, mPc, mOutcome>>

rVars == <<rItems, rConcurrency, rSem, rPc, rExec, rHandler>>

sVars == <<sConfig, sTasks, sDelay, sGroups, sGi, sPc, sTaskPc, sSummary,
           sOpened, sSem, sSleeps, sResults, sErrors, sFlags, sSuccess>>

xVars == <<xTargets, xHandler, xPc, xSem, xOpened, xResults, xResponse>>

bVars == <<bNames, bLinkCount, bStartNodes, bPc, bNodeCalls, bCreated,
           bNameToId, bAliasToId, bLinkAttempts, bLinks, bLastLink,
           bStarted, bDetails, bWarnings, bRecord>>

kVars == <<kSwitch, kNodes, kLinked, kCreatedIn, kCall, kAtStart, kPc,
           kRolePc, kRoleResult, kReturn, kSyslog, kAddress>>

dVars == <<dLinkList, dNodeList, dPc, dTrace, dIdx, dLinksDeleted,
           dNodesDeleted, dFailed, dErrors, dResponse>>

lVars == <<lFiles, lPc, lReq, lSeen, lProvisioned, lStatus>>

tVars == <<tNodes, tSessions, tSubmissions, tStudent, tPc, tListed,
           tRemaining, tAttempted, tRefused, tDeleted, tStatus>>

hVars == <<hStudent, hSnitches, hCapture, hResults, hPc, hLogs, hErrors>>

fVars == <<fKind, fTasks, fWaiting, fActive, fOpen, fBetween, fAgain,
           fDone>>

eVars == <<eNames, eNameToId, eAliasToId, eLink, eResolved, eSent,
           eSwapped, ePc>>

aVars == <<aLinks, aChosen, aCreated>>

jVars == <<jStudent, jSnitches, jNodes, jPc, jTaskPc, jHeld, jAttempts,
           jConsole, jTarget, jResult, jInjected, jSkipped, jErrors>>

vVars == <<vTasks, vNodes, vLinks, vPc, vReused>>

oVars == <<oCaller, oPc, oWriter, oWire, oExit, oCloses, oSwallowed,
           oResult>>

vars == <<rcVars, pVars, mVars, rVars, sVars, xVars, bVars, kVars, dVars,
          lVars, tVars, hVars, fVars, eVars, aVars, jVars, vVars, oVars>>

\* What the actions of one subsystem leave alone: the other subsystems.
notRc == <<pVars, mVars, rVars, sVars, xVars, bVars, kVars, dVars, lVars,
           tVars, hVars, fVars, eVars, aVars, jVars, vVars, oVars>>

notP == <<rcVars, mVars, rVars, sVars, xVars, bVars, kVars, dVars, lVars,
          tVars, hVars, fVars, eVars, aVars, jVars, vVars, oVars>>

notM == <<rcVars, pVars, rVars, sVars, xVars, bVars, kVars, dVars, lVars,
          tVars, hVars, fVars, eVars, aVars, jVars, vVars, oVars>>

notR == <<rcVars, pVars, mVars, sVars, xVars, bVars, kVars, dVars, lVars,
          tVars, hVars, fVars, eVars, aVars, jVars, vVars, oVars>>

notS == <<rcVars, pVars, mVars, rVars, xVars, bVars, kVars, dVars, lVars,
          tVars, hVars, fVars, eVars, aVars, jVars, vVars, oVars>>

notX == <<rcVars, pVars, mVars, rVars, sVars, bVars, kVars, dVars, lVars,
          tVars, hVars, fVars, eVars, aVars, jVars, vVars, oVars>>

notB == <<rcVars, pVars, mVars, rVars, sVars, xVars, kVars, dVars, lVars,
          tVars, hVars, fVars, eVars, aVars, jVars, vVars, oVars>>

notK == <<rcVars, pVars, mVars, rVars, sVars, xVars, bVars, dVars, lVars,
          tVars, hVars, fVars, eVars, aVars, jVars, vVars, oVars>>

notD == <<rcVars, pVars, mVars, rVars, sVars, xVars, bVars, kVars, lVars,
          tVars, hVars, fVars, eVars, aVars, jVars, vVars, oVars>>

notL == <<rcVars, pVars, mVars, rVars, sVars, xVars, bVars, kVars, dVars,
          tVars, hVars, fVars, eVars, aVars, jVars, vVars, oVars>>

notT == <<rcVars, pVars, mVars, rVars, sVars, xVars, bVars, kVars, dVars,
          lVars, hVars, fVars, eVars, aVars, jVars, vVars, oVars>>

notH == <<rcVars, pVars, mVars, rVars, sVars, xVars, bVars, kVars, dVars,
          lVars, tVars, fVars, eVars, aVars, jVars, vVars, oVars>>

notF == <<rcVars, pVars, mVars, rVars, sVars, xVars, bVars, kVars, dVars,
          lVars, tVars, hVars, eVars, aVars, jVars, vVars, oVars>>

notE == <<rcVars, pVars, mVars, rVars, sVars, xVars, bVars, kVars, dVars,
          lVars, tVars, hVars, fVars, aVars, jVars, vVars, oVars>>

notA == <<rcVars, pVars, mVars, rVars, sVars, xVars, bVars, kVars, dVars,
          lVars, tVars, hVars, fVars, eVars, jVars, vVars, oVars>>

notJ == <<rcVars, pVars, mVars, rVars, sVars, xVars, bVars, kVars, dVars,
          lVars, tVars, hVars, fVars, eVars, aVars, vVars, oVars>>

notV == <<rcVars, pVars, mVars, rVars, sVars, xVars, bVars, kVars, dVars,
          lVars, tVars, hVars, fVars, eVars, aVars, jVars, oVars>>

notO == <<rcVars, pVars, mVars, rVars, sVars, xVars, bVars, kVars, dVars,
          lVars, tVars, hVars, fVars, eVars, aVars, jVars, vVars>>

----------------------------------------------------------------------------
(* Optional values: Python's None is <<>>, a value v is <<v>>.              *)

None == <<>>

Some(v) == <<v>>

----------------------------------------------------------------------------
(***************************************************************************)
(* Characters.  A console stream is a sequence of one-character strings.   *)
(* "_" and "E" are the letters the sentinel is made of, "0" and "1" are    *)
(* digits, "n" is a line break, " " is white space, "c" is the text of the *)
(* command, "%" stands for the text  %s\n' $?  that follows the sentinel   *)
(* in the line that is sent, "#" is a shell prompt.                        *)
(***************************************************************************)

\* Longest command output that is enumerated.
MaxOut == 4

\* sentinel: str = "__EXIT__" (a marker that begins and ends with the same
\* character, so that a tail of the output can overlap its head).
Sentinel == <<"_", "E", "_">>

Digits == {"0", "1"}

LineBreaks == {"n"}

WhiteSpace == {" ", "n"}

\* The characters a command may print.
OutChars == {"_", "E", "0", "n", " "}

\* The exit codes the remote shell may print for $?, as decimal digits.
ExitCodes == {<<"0">>, <<"1">>, <<"1", "0">>}

SeqsUpTo(S, n) == UNION {[1..k -> S] : k \in 0..n}

SetMax(S) == CHOOSE x \in S : \A y \in S : y <= x

SetMin(S) == CHOOSE x \in S : \A y \in S : x <= y

\* str.__contains__ / str.find: the positions where pat occurs in s.
Occurrences(s, pat) ==
    {i \in 1..(Len(s) - Len(pat) + 1) : SubSeq(s, i, i + Len(pat) - 1) = pat}

Contains(s, pat) == Occurrences(s, pat) # {}

\* str.partition: splits at the FIRST occurrence.
Partition(s, pat) ==
    LET i == SetMin(Occurrences(s, pat))
    IN  <<SubSeq(s, 1, i - 1), pat, SubSeq(s, i + Len(pat), Len(s))>>

\* str.rpartition: splits at the LAST occurrence.
RPartition(s, pat) ==
    LET i == SetMax(Occurrences(s, pat))
    IN  <<SubSeq(s, 1, i - 1), pat, SubSeq(s, i + Len(pat), Len(s))>>

\* str.splitlines()[0] of a non-empty string: the text before the first
\* line break (empty when the string starts with one).
FirstLine(s) ==
    LET brk == {i \in 1..Len(s) : s[i] \in LineBreaks}
    IN  IF brk = {} THEN s ELSE SubSeq(s, 1, SetMin(brk) - 1)

\* str.strip(): leading and trailing white space removed.
Strip(s) ==
    LET keep == {i \in 1..Len(s) : s[i] \notin WhiteSpace}
    IN  IF keep = {} THEN <<>> ELSE SubSeq(s, SetMin(keep), SetMax(keep))

DigitVal(c) == IF c = "1" THEN 1 ELSE 0

RECURSIVE DecimalValue(_)
DecimalValue(s) ==
    IF s = <<>> THEN 0
    ELSE LET front == SubSeq(s, 1, Len(s) - 1)
             last  == s[Len(s)]
         IN  IF last = "_" THEN DecimalValue(front)
             ELSE 10 * DecimalValue(front) + DigitVal(last)

\* int(text) of already stripped text: decimal digits, where a single "_" may
\* stand between two digits (PEP 515); anything else is a ValueError.
IsIntLiteral(t) ==
    /\ t # <<>>
    /\ \A i \in 1..Len(t) : t[i] \in Digits \cup {"_"}
    /\ t[1] \in Digits
    /\ t[Len(t)] \in Digits
    /\ \A i \in 1..(Len(t) - 1) : ~(t[i] = "_" /\ t[i + 1] = "_")

\* A plausible slip: an empty exit line read as 0, as in int(exit_line or 0).
ParseExitLineEmptyIsZero(exit_line) ==
    LET t == Strip(exit_line)
    IN  IF t = <<>> THEN Some(0)
        ELSE IF IsIntLiteral(t) THEN Some(DecimalValue(t)) ELSE None

\* try: exit_code = int(exit_line.strip())  except ValueError: exit_code = None
ParseExitLine(exit_line) ==
    LET t == Strip(exit_line)
    IN  IF IsIntLiteral(t) THEN Some(DecimalValue(t)) ELSE None

\* A plausible slip: partition instead of rpartition.
StatusFromRawFirst(raw_output, sentinel) ==
    IF Contains(raw_output, sentinel)
    THEN LET p == Partition(raw_output, sentinel)
             exit_line == IF p[3] # <<>> THEN FirstLine(p[3]) ELSE <<>>
         IN  [output |-> p[1], exit_code |-> ParseExitLine(exit_line)]
    ELSE [output |-> raw_output, exit_code |-> None]

\* The parsing half of run_command_with_status: raw_output -> (output, exit_code).
StatusFromRaw(raw_output, sentinel) ==
    IF Contains(raw_output, sentinel)
    THEN LET p == RPartition(raw_output, sentinel)
             exit_line == IF p[3] # <<>> THEN FirstLine(p[3]) ELSE <<>>
         IN  [output |-> p[1], exit_code |-> ParseExitLine(exit_line)]
    ELSE [output |-> raw_output, exit_code |-> None]

\* The line run_command_with_status sends:  <command>; printf '<sentinel>%s\n' $?
SentLine(sentinel) == <<"c">> \o sentinel \o <<"%">>

\* What the console writes back for one command: the echo of the sent line
\* (when the terminal echoes), the command's output, the line printf prints
\* (sentinel, exit code, line break), and the next prompt.
EchoPart(r) == IF r.echo THEN SentLine(Sentinel) \o <<"n">> ELSE <<>>

SentinelLine(r) == Sentinel \o r.code \o <<"n">>

PromptPart(r) == IF r.prompt THEN <<"#">> ELSE <<>>

RemoteStream(r) == EchoPart(r) \o r.out \o SentinelLine(r) \o PromptPart(r)

\* Number of characters that precede the printed sentinel line.
SentinelLineStart(r) == Len(EchoPart(r)) + Len(r.out)

\* What read_for returned when its deadline passed.
RawOutput == SubSeq(RemoteStream(rcRemote), 1, rcArrived)

RcIdle ==
    /\ rcRemote = [echo |-> FALSE, out |-> <<>>, code |-> <<"0">>, prompt |-> FALSE]
    /\ rcArrived = 0
    /\ rcPc = "idle"
    /\ rcResult = [output |-> <<>>, exit_code |-> None]

PIdle ==
    /\ pCaller = "direct"
    /\ pNode = "ok"
    /\ pSpec = [payload |-> "content", overwrite |-> TRUE, executable |-> TRUE,
                run_after_upload |-> FALSE, has_parent |-> FALSE]
    /\ pRemote = [exists |-> FALSE, touched |-> FALSE]
    /\ pPc = "idle"
    /\ pConsole = "none"
    /\ pSent = {}
    /\ pLocal = [probe_truncated |-> FALSE, decode_exit |-> None,
                 chmod_exit |-> None, fault |-> FALSE]
    /\ pResult = None
    /\ pSummary = None

MIdle ==
    /\ mTasks = 0
    /\ mConcurrency = 1
    /\ mSem = 0
    /\ mPc = <<>>
    /\ mOutcome = <<>>

RIdle ==
    /\ rItems = <<>>
    /\ rConcurrency = 1
    /\ rSem = 0
    /\ rPc = <<>>
    /\ rExec = <<>>
    /\ rHandler = "idle"

SIdle ==
    /\ sConfig = <<>>
    /\ sTasks = <<>>
    /\ sDelay = FALSE
    /\ sGroups = <<>>
    /\ sGi = 0
    /\ sPc = "idle"
    /\ sTaskPc = <<>>
    /\ sSummary = <<>>
    /\ sOpened = {}
    /\ sSem = 0
    /\ sSleeps = 0
    /\ sResults = <<>>
    /\ sErrors = <<>>
    /\ sFlags = <<>>
    /\ sSuccess = None

\* The deployment subsystems at rest.
DeployIdle == RcIdle /\ PIdle /\ MIdle /\ RIdle /\ SIdle

XIdle ==
    /\ xTargets = <<>>
    /\ xHandler = "idle"
    /\ xPc = <<>>
    /\ xSem = 0
    /\ xOpened = {}
    /\ xResults = <<>>
    /\ xResponse = None

BIdle ==
    /\ bNames = <<>>
    /\ bLinkCount = 0
    /\ bStartNodes = FALSE
    /\ bPc = "idle"
    /\ bNodeCalls = 0
    /\ bCreated = 0
    /\ bNameToId = <<>>
    /\ bAliasToId = <<>>
    /\ bLinkAttempts = 0
    /\ bLinks = 0
    /\ bLastLink = None
    /\ bStarted = 0
    /\ bDetails = 0
    /\ bWarnings = 0
    /\ bRecord = None

KIdle ==
    /\ kSwitch = <<>>
    /\ kNodes = <<>>
    /\ kLinked = <<>>
    /\ kCreatedIn = <<>>
    /\ kCall = 0
    /\ kAtStart = {}
    /\ kPc = "idle"
    /\ kRolePc = <<>>
    /\ kRoleResult = <<>>
    /\ kReturn = None
    /\ kSyslog = <<>>
    /\ kAddress = <<>>

DIdle ==
    /\ dLinkList = <<>>
    /\ dNodeList = <<>>
    /\ dPc = "idle"
    /\ dTrace = <<>>
    /\ dIdx = 0
    /\ dLinksDeleted = 0
    /\ dNodesDeleted = 0
    /\ dFailed = {}
    /\ dErrors = <<>>
    /\ dResponse = None

LIdle ==
    /\ lFiles = {}
    /\ lPc = <<>>
    /\ lReq = <<>>
    /\ lSeen = <<>>
    /\ lProvisioned = <<>>
    /\ lStatus = <<>>

TIdle ==
    /\ tNodes = {}
    /\ tSessions = {}
    /\ tSubmissions = {}
    /\ tStudent = <<>>
    /\ tPc = "idle"
    /\ tListed = {}
    /\ tRemaining = {}
    /\ tAttempted = {}
    /\ tRefused = {}
    /\ tDeleted = {}
    /\ tStatus = ""

HIdle ==
    /\ hStudent = <<>>
    /\ hSnitches = <<>>
    /\ hCapture = <<>>
    /\ hResults = <<>>
    /\ hPc = "idle"
    /\ hLogs = <<>>
    /\ hErrors = <<>>

FIdle ==
    /\ fKind = "none"
    /\ fTasks = 0
    /\ fWaiting = 0
    /\ fActive = 0
    /\ fOpen = 0
    /\ fBetween = 0
    /\ fAgain = 0
    /\ fDone = 0

EIdle ==
    /\ eNames = <<>>
    /\ eNameToId = <<>>
    /\ eAliasToId = <<>>
    /\ eLink = None
    /\ eResolved = <<>>
    /\ eSent = None
    /\ eSwapped = None
    /\ ePc = "idle"

AIdle ==
    /\ aLinks = {}
    /\ aChosen = <<>>
    /\ aCreated = <<>>

JIdle ==
    /\ jStudent = <<>>
    /\ jSnitches = <<>>
    /\ jNodes = <<>>
    /\ jPc = "idle"
    /\ jTaskPc = <<>>
    /\ jHeld = 0
    /\ jAttempts = <<>>
    /\ jConsole = {}
    /\ jTarget = <<>>
    /\ jResult = <<>>
    /\ jInjected = <<>>
    /\ jSkipped = <<>>
    /\ jErrors = <<>>

VIdle ==
    /\ vTasks = <<>>
    /\ vNodes = <<>>
    /\ vLinks = <<>>
    /\ vPc = <<>>
    /\ vReused = <<>>

OIdle ==
    /\ oCaller = "push"
    /\ oPc = "idle"
    /\ oWriter = "none"
    /\ oWire = "none"
    /\ oExit = None
    /\ oCloses = 0
    /\ oSwallowed = {}
    /\ oResult = None

\* The project operations at rest, except the one named k.
ProjectIdleBut(k) ==
    /\ (k = "x" \/ XIdle)
    /\ (k = "b" \/ BIdle)
    /\ (k = "k" \/ KIdle)
    /\ (k = "d" \/ DIdle)
    /\ (k = "l" \/ LIdle)
    /\ (k = "t" \/ TIdle)
    /\ (k = "h" \/ HIdle)
    /\ (k = "f" \/ FIdle)
    /\ (k = "e" \/ EIdle)
    /\ (k = "a" \/ AIdle)
    /\ (k = "j" \/ JIdle)
    /\ (k = "v" \/ VIdle)
    /\ (k = "o" \/ OIdle)

ProjectIdle == ProjectIdleBut("none")

InitStatus ==
    /\ PIdle /\ MIdle /\ RIdle /\ SIdle /\ ProjectIdle
    /\ rcRemote \in [echo : BOOLEAN, out : SeqsUpTo(OutChars, MaxOut),
                     code : ExitCodes, prompt : BOOLEAN]
    /\ rcArrived = 0
    /\ rcPc = "reading"
    /\ rcResult = [output |-> <<>>, exit_code |-> None]

\* read_for: one more character of the stream is collected before the deadline.
ReadForChunk ==
    /\ rcPc = "reading"
    /\ rcArrived < Len(RemoteStream(rcRemote))
    /\ rcArrived' = rcArrived + 1
    /\ UNCHANGED <<rcRemote, rcPc, rcResult, notRc>>

\* read_for's deadline passes; the collected text is parsed and returned.
ReadForDeadline ==
    /\ rcPc = "reading"
    /\ rcResult' = StatusFromRaw(RawOutput, Sentinel)
    /\ rcPc' = "done"
    /\ UNCHANGED <<rcRemote, rcArrived, notRc>>

NextStatus == ReadForChunk \/ ReadForDeadline

----------------------------------------------------------------------------
(***************************************************************************)
(* ScriptPusher.push (core/script_pusher.py) and its caller                *)
(* _execute_single_script (api/routers/topologies.py, scenarios.py).       *)
(***************************************************************************)

Callers == {"direct", "topologies", "scenarios"}

\* Where the payload comes from: inline content; a local path that resolves;
\* a local path outside the scripts directory (ValueError); a local path that
\* does not exist (FileNotFoundError); neither content nor path (ValueError).
Payloads == {"content", "local_ok", "local_escape", "local_missing", "none"}

\* _get_payload returns bytes for these and raises for the others.
PayloadAvailable(spec) == spec.payload \in {"content", "local_ok"}

\* The ScriptSpec each caller builds.
SpecsOf(caller) ==
    IF caller = "direct"
    THEN [payload : Payloads, overwrite : BOOLEAN, executable : BOOLEAN,
          run_after_upload : BOOLEAN, has_parent : BOOLEAN]
    ELSE IF caller = "topologies"
    THEN [payload : {"content"}, overwrite : {TRUE}, executable : {TRUE},
          run_after_upload : BOOLEAN, has_parent : BOOLEAN]
    ELSE [payload : {"content"}, overwrite : {TRUE}, executable : {TRUE},
          run_after_upload : {TRUE}, has_parent : BOOLEAN]

\* What run_command_with_status can return as exit code for a command whose
\* true exit code is one of codes: that code when the sentinel line arrived
\* in the read window, None when the window ended first.
Readings(codes) == {Some(c) : c \in codes} \cup {None}

UploadResult(success, skipped, reason) ==
    [success |-> success, skipped |-> skipped, reason |-> reason]

PushResult(upload, execution) == [upload |-> upload, execution |-> execution]

\* A plausible slip: only a known non-zero exit code is a failure.
ExecutionResultUnknownOk(exit_code) ==
    [success |-> (exit_code \notin {Some(1)}), exit_code |-> exit_code]

\* _execute_script: success = exit_code == 0
ExecutionResult(exit_code) ==
    [success |-> (exit_code = Some(0)), exit_code |-> exit_code]

ConnectionFailed ==
    PushResult(UploadResult(FALSE, FALSE, "connection_failed"), None)

\* A plausible slip: execution is always required, whatever was requested.
SingleScriptSuccessAlwaysRun(caller, run_after_upload, push_result) ==
    /\ push_result.upload.success
    /\ IF push_result.execution # None
       THEN push_result.execution[1].success ELSE FALSE

\* _execute_single_script: the success flag computed from push's result.
\* topologies.py looks at script.run_after_upload; scenarios.py always runs.
SingleScriptSuccess(caller, run_after_upload, push_result) ==
    IF caller = "topologies" /\ ~run_after_upload
    THEN push_result.upload.success
    ELSE /\ push_result.upload.success
         /\ IF push_result.execution # None
            THEN push_result.execution[1].success ELSE FALSE

\* The ScriptExecutionSummary returned by _execute_single_script.
\* outcome is None when push raised (the except arm), else Some(result).
SingleScriptSummary(caller, run_after_upload, outcome) ==
    IF outcome = None
    THEN [success |-> FALSE, error |-> "exception"]
    ELSE LET r == outcome[1]
             ok == SingleScriptSuccess(caller, run_after_upload, r)
         IN  [success |-> ok,
              error |-> IF ~r.upload.success THEN "upload"
                        ELSE IF r.execution # None /\ ~r.execution[1].success
                        THEN "execution" ELSE "none"]

InitPush ==
    /\ RcIdle /\ MIdle /\ RIdle /\ SIdle /\ ProjectIdle
    /\ pCaller \in Callers
    /\ pNode \in (IF pCaller = "direct" THEN {"ok"}
                  ELSE {"ok", "missing", "noconsole"})
    /\ pSpec \in SpecsOf(pCaller)
    /\ pRemote \in [exists : BOOLEAN, touched : {FALSE}]
    /\ pPc = IF pCaller = "direct" THEN "start" ELSE "enter"
    /\ pConsole = "none"
    /\ pSent = {}
    /\ pLocal = [probe_truncated |-> FALSE, decode_exit |-> None,
                 chmod_exit |-> None, fault |-> FALSE]
    /\ pResult = None
    /\ pSummary = None

\* core.nodes.find_node_by_name: None when the config has no such node.
FindNodeByName(status) == IF status = "missing" THEN None ELSE Some(status)

\* core.nodes.resolve_console_target: None when the node has no telnet console.
ResolveConsoleTarget(node) == IF node = "noconsole" THEN None ELSE Some(node)

\* A plausible slip: the console target is not checked.
SingleScriptTargetUnchecked(status) ==
    IF FindNodeByName(status) = None THEN "missing" ELSE "push"

\* _execute_single_script: the two early returns before push is called.
SingleScriptTarget(status) ==
    IF FindNodeByName(status) = None THEN "missing"
    ELSE IF ResolveConsoleTarget(FindNodeByName(status)[1]) = None
    THEN "noconsole"
    ELSE "push"

\* push returns r: the console (if open) is closed by open_console's finally.
PushReturns(r) ==
    /\ pResult' = Some(r)
    /\ pConsole' = IF pConsole = "open" THEN "closed" ELSE pConsole
    /\ pPc' = "returned"

\* A plausible slip: the script is run whether requested or not.
AfterUploadAlwaysRun ==
    /\ pPc' = "exec"
    /\ UNCHANGED <<pResult, pConsole>>

\* After a successful upload: run the script if requested, else return.
AfterUpload ==
    IF pSpec.run_after_upload
    THEN /\ pPc' = "exec"
         /\ UNCHANGED <<pResult, pConsole>>
    ELSE PushReturns(PushResult(UploadResult(TRUE, FALSE, ""), None))

\* _execute_single_script: find_node_by_name / resolve_console_target.
ResolveTarget ==
    /\ pPc = "enter"
    /\ IF SingleScriptTarget(pNode) = "push"
       THEN /\ pPc' = "start"
            /\ UNCHANGED pSummary
       ELSE /\ pPc' = "summarised"
            /\ pSummary' = Some([success |-> FALSE,
                                 error |-> SingleScriptTarget(pNode)])
    /\ UNCHANGED <<pCaller, pNode, pSpec, pRemote, pConsole, pSent, pLocal, pResult,
                   notP>>

\* push: payload = self._get_payload(spec), before the try block.
GetPayload ==
    /\ pPc = "start"
    /\ pPc' = IF PayloadAvailable(pSpec) THEN "connect" ELSE "raised"
    /\ UNCHANGED <<pCaller, pNode, pSpec, pRemote, pConsole, pSent, pLocal,
                   pResult, pSummary,
                   notP>>

\* async with open_console(settings): the connection is made or fails.
OpenConsole ==
    /\ pPc = "connect"
    /\ \E connected \in BOOLEAN :
         IF connected
         THEN /\ pConsole' = "open"
              /\ pPc' = IF ~pSpec.overwrite THEN "probe" ELSE "upload"
              /\ UNCHANGED <<pResult, pLocal>>
         ELSE /\ PushReturns(ConnectionFailed)
              /\ pLocal' = [pLocal EXCEPT !.fault = TRUE]
    /\ UNCHANGED <<pCaller, pNode, pSpec, pRemote, pSent, pSummary,
                   notP>>

\* Any console step raises (connection lost): except Exception -> connection_failed.
TransportFault ==
    /\ pPc \in {"probe", "upload", "mkdir", "decode", "rm", "chmod", "exec"}
    /\ PushReturns(ConnectionFailed)
    /\ pLocal' = [pLocal EXCEPT !.fault = TRUE]
    /\ UNCHANGED <<pCaller, pNode, pSpec, pRemote, pSent, pSummary,
                   notP>>

\* _remote_file_exists: [ -e path ] with a 1.0 s read window; exit_code == 0.
ProbeExists ==
    /\ pPc = "probe"
    /\ pSent' = pSent \cup {"probe"}
    /\ \E exit_code \in Readings({IF pRemote.exists THEN 0 ELSE 1}) :
         /\ pLocal' = [pLocal EXCEPT !.probe_truncated = (exit_code = None)]
         /\ IF exit_code = Some(0)
            THEN PushReturns(PushResult(UploadResult(FALSE, TRUE, "exists"), None))
            ELSE /\ pPc' = "upload"
                 /\ UNCHANGED <<pResult, pConsole>>
    /\ UNCHANGED <<pCaller, pNode, pSpec, pRemote, pSummary,
                   notP>>

\* _upload_base64: the here-document that writes the temporary remote file.
UploadBase64 ==
    /\ pPc = "upload"
    /\ pSent' = pSent \cup {"heredoc"}
    /\ pPc' = IF pSpec.has_parent THEN "mkdir" ELSE "decode"
    /\ UNCHANGED <<pCaller, pNode, pSpec, pRemote, pConsole, pLocal, pResult, pSummary,
                   notP>>

\* mkdir -p of the parent directory; its result is not looked at.
MkdirParent ==
    /\ pPc = "mkdir"
    /\ pSent' = pSent \cup {"mkdir"}
    /\ pPc' = "decode"
    /\ UNCHANGED <<pCaller, pNode, pSpec, pRemote, pConsole, pLocal, pResult, pSummary,
                   notP>>

\* base64 -d tmp > remote_path: the redirection writes the remote file.
Decode ==
    /\ pPc = "decode"
    /\ pSent' = pSent \cup {"decode"}
    /\ pRemote' = [pRemote EXCEPT !.touched = TRUE]
    /\ \E decode_exit \in Readings({0, 1}) :
         pLocal' = [pLocal EXCEPT !.decode_exit = decode_exit]
    /\ pPc' = "rm"
    /\ UNCHANGED <<pCaller, pNode, pSpec, pConsole, pResult, pSummary,
                   notP>>

\* rm -f tmp, then the test of decode_exit.
RemoveTmp ==
    /\ pPc = "rm"
    /\ pSent' = pSent \cup {"rm"}
    /\ IF pLocal.decode_exit # Some(0)
       THEN PushReturns(PushResult(UploadResult(FALSE, FALSE, "decode_failed"), None))
       ELSE IF pSpec.executable
       THEN /\ pPc' = "chmod"
            /\ UNCHANGED <<pResult, pConsole>>
       ELSE AfterUpload
    /\ UNCHANGED <<pCaller, pNode, pSpec, pRemote, pLocal, pSummary,
                   notP>>

\* chmod +x remote_path
Chmod ==
    /\ pPc = "chmod"
    /\ pSent' = pSent \cup {"chmod"}
    /\ pRemote' = [pRemote EXCEPT !.touched = TRUE]
    /\ \E chmod_exit \in Readings({0, 1}) :
         /\ pLocal' = [pLocal EXCEPT !.chmod_exit = chmod_exit]
         /\ IF chmod_exit # Some(0)
            THEN PushReturns(PushResult(UploadResult(FALSE, FALSE, "chmod_failed"), None))
            ELSE AfterUpload
    /\ UNCHANGED <<pCaller, pNode, pSpec, pSummary,
                   notP>>

\* _execute_script: <shell> remote_path, read for spec.run_timeout.
ExecuteScript ==
    /\ pPc = "exec"
    /\ pSent' = pSent \cup {"exec"}
    /\ \E exit_code \in Readings({0, 1}) :
         PushReturns(PushResult(UploadResult(TRUE, FALSE, ""),
                                Some(ExecutionResult(exit_code))))
    /\ UNCHANGED <<pCaller, pNode, pSpec, pRemote, pLocal, pSummary,
                   notP>>

\* _execute_single_script builds its summary from push's result, or from
\* the exception push raised.
Summarise ==
    /\ pCaller # "direct"
    /\ pPc \in {"returned", "raised"}
    /\ pSummary' = Some(SingleScriptSummary(pCaller, pSpec.run_after_upload,
                                            IF pPc = "raised" THEN None ELSE pResult))
    /\ pPc' = "summarised"
    /\ UNCHANGED <<pCaller, pNode, pSpec, pRemote, pConsole, pSent, pLocal, pResult,
                   notP>>

NextPush ==
    \/ ResolveTarget
    \/ GetPayload
    \/ OpenConsole
    \/ TransportFault
    \/ ProbeExists
    \/ UploadBase64
    \/ MkdirParent
    \/ Decode
    \/ RemoveTmp
    \/ Chmod
    \/ ExecuteScript
    \/ Summarise

SpecPush == InitPush /\ [][NextPush]_vars

SpecStatus == InitStatus /\ [][NextStatus]_vars

----------------------------------------------------------------------------
(***************************************************************************)
(* ScriptPusher.push_many (core/script_pusher.py): one worker per task,    *)
(* all gathered, each inside  async with semaphore.                        *)
(***************************************************************************)

\* Most tasks handed to push_many, and the largest concurrency argument.
MaxPushTasks == 4

MaxConcurrency == 2

\* A plausible slip: one permit too many (an off-by-one in the cap).
SemaphoreValueOffByOne(concurrency) ==
    IF concurrency >= 1 THEN concurrency + 1 ELSE 2

\* asyncio.Semaphore(max(1, concurrency))
SemaphoreValue(concurrency) ==
    IF concurrency >= 1 THEN concurrency ELSE 1

Workers == 1..mTasks

InFlight == {t \in Workers : mPc[t] = "pushing"}

InitMany ==
    /\ RcIdle /\ PIdle /\ RIdle /\ SIdle /\ ProjectIdle
    /\ mTasks \in 0..MaxPushTasks
    /\ mConcurrency \in 0..MaxConcurrency
    /\ mSem = SemaphoreValue(mConcurrency)
    /\ mPc = [t \in 1..mTasks |-> "waiting"]
    /\ mOutcome = [t \in 1..mTasks |-> FALSE]

\* async with semaphore: a permit is taken and push is entered.
WorkerAcquire(t) ==
    /\ mPc[t] = "waiting"
    /\ mSem > 0
    /\ mSem' = mSem - 1
    /\ mPc' = [mPc EXCEPT ![t] = "pushing"]
    /\ UNCHANGED <<mTasks, mConcurrency, mOutcome, notM>>

\* push returns its result; leaving the async with block releases the permit.
WorkerReturns(t) ==
    /\ mPc[t] = "pushing"
    /\ \E ok \in BOOLEAN : mOutcome' = [mOutcome EXCEPT ![t] = ok]
    /\ mSem' = mSem + 1
    /\ mPc' = [mPc EXCEPT ![t] = "done"]
    /\ UNCHANGED <<mTasks, mConcurrency, notM>>

\* push raises (payload acquisition); the permit is released all the same.
WorkerRaises(t) ==
    /\ mPc[t] = "pushing"
    /\ mSem' = mSem + 1
    /\ mPc' = [mPc EXCEPT ![t] = "raised"]
    /\ UNCHANGED <<mTasks, mConcurrency, mOutcome, notM>>

NextMany ==
    \/ \E t \in Workers : WorkerAcquire(t)
    \/ \E t \in Workers : WorkerReturns(t)
    \/ \E t \in Workers : WorkerRaises(t)

SpecMany == InitMany /\ [][NextMany]_vars

----------------------------------------------------------------------------
(***************************************************************************)
(* run_scripts / _run_single (api/routers/scripts.py) over                 *)
(* ScriptPusher.run (core/script_pusher.py).                               *)
(***************************************************************************)

\* Most run items in one request.
MaxRunItems == 3

RunItems == 1..Len(rItems)

InitRun ==
    /\ RcIdle /\ PIdle /\ MIdle /\ SIdle /\ ProjectIdle
    /\ rItems \in SeqsUpTo({"ok", "missing", "noconsole"}, MaxRunItems)
    /\ rConcurrency \in 1..MaxConcurrency
    /\ rSem = 0
    /\ rPc = [i \in 1..Len(rItems) |-> "created"]
    /\ rExec = [i \in 1..Len(rItems) |-> None]
    /\ rHandler = "start"

\* run_scripts: an empty request is refused, else the semaphore is made and
\* every _run_single is handed to asyncio.gather.
RunScriptsEnter ==
    /\ rHandler = "start"
    /\ IF rItems = <<>>
       THEN /\ rHandler' = "failed"
            /\ UNCHANGED rSem
       ELSE /\ rHandler' = "gathering"
            /\ rSem' = SemaphoreValue(rConcurrency)
    /\ UNCHANGED <<rItems, rConcurrency, rPc, rExec, notR>>

\* _run_single: _ensure_node / _ensure_console raise HTTPException.
RunSingleResolve(i) ==
    /\ rHandler # "start"
    /\ rPc[i] = "created"
    /\ rPc' = [rPc EXCEPT ![i] = IF rItems[i] = "ok" THEN "waiting" ELSE "raised"]
    /\ UNCHANGED <<rItems, rConcurrency, rSem, rExec, rHandler, notR>>

\* async with semaphore: pusher.run is entered.
RunSingleAcquire(i) ==
    /\ rPc[i] = "waiting"
    /\ rSem > 0
    /\ rSem' = rSem - 1
    /\ rPc' = [rPc EXCEPT ![i] = "running"]
    /\ UNCHANGED <<rItems, rConcurrency, rExec, rHandler, notR>>

\* ScriptPusher.run: the console opened and _execute_script returned.
RunReturns(i) ==
    /\ rPc[i] = "running"
    /\ \E exit_code \in Readings({0, 1}) :
         rExec' = [rExec EXCEPT ![i] = Some(ExecutionResult(exit_code))]
    /\ rSem' = rSem + 1
    /\ rPc' = [rPc EXCEPT ![i] = "returned"]
    /\ UNCHANGED <<rItems, rConcurrency, rHandler, notR>>

\* ScriptPusher.run: open_console (or a later console step) raises; run has
\* no except clause, so the exception leaves run and _run_single.
RunRaises(i) ==
    /\ rPc[i] = "running"
    /\ rSem' = rSem + 1
    /\ rPc' = [rPc EXCEPT ![i] = "raised"]
    /\ UNCHANGED <<rItems, rConcurrency, rExec, rHandler, notR>>

\* asyncio.gather without return_exceptions: the first exception is raised
\* in run_scripts; the other coroutines keep running, their results are lost.
GatherRaises ==
    /\ rHandler = "gathering"
    /\ \E i \in RunItems : rPc[i] = "raised"
    /\ rHandler' = "failed"
    /\ UNCHANGED <<rItems, rConcurrency, rSem, rPc, rExec, notR>>

\* asyncio.gather returns every result; the response is built from them.
GatherReturns ==
    /\ rHandler = "gathering"
    /\ \A i \in RunItems : rPc[i] = "returned"
    /\ rHandler' = "responded"
    /\ UNCHANGED <<rItems, rConcurrency, rSem, rPc, rExec, notR>>

NextRun ==
    \/ RunScriptsEnter
    \/ \E i \in RunItems : RunSingleResolve(i)
    \/ \E i \in RunItems : RunSingleAcquire(i)
    \/ \E i \in RunItems : RunReturns(i)
    \/ \E i \in RunItems : RunRaises(i)
    \/ GatherRaises
    \/ GatherReturns

SpecRun == InitRun /\ [][NextRun]_vars

----------------------------------------------------------------------------
(***************************************************************************)
(* _execute_embedded_scripts (api/routers/topologies.py, scenarios.py):    *)
(* the priority-staged scheduler, and the error collection of its caller.  *)
(***************************************************************************)

\* Most (node, script) pairs in a topology, and the largest priority.
MaxSchedTasks == 3

MaxPriority == 2

\* MAX_CONCURRENT_SCRIPTS = 8
MAX_CONCURRENT_SCRIPTS == 8

NodeNames == {"n1", "n2"}

SchedTasks == 1..Len(sTasks)

\* list.sort(key=priority) is stable: index i goes behind every element whose
\* priority is not larger.
InsertByPriority(sorted, i, tasks) ==
    LET k == Cardinality({j \in 1..Len(sorted) :
                            tasks[sorted[j]].priority <= tasks[i].priority})
    IN  SubSeq(sorted, 1, k) \o <<i>> \o SubSeq(sorted, k + 1, Len(sorted))

RECURSIVE SortPrefix(_, _)
SortPrefix(tasks, n) ==
    IF n = 0 THEN <<>>
    ELSE InsertByPriority(SortPrefix(tasks, n - 1), n, tasks)

\* A plausible slip: the sort is left out (groupby over the unsorted list).
Unsorted(tasks) == [i \in 1..Len(tasks) |-> i]

\* script_tasks.sort(key=lambda x: x[0]), as task indices.
SortByPriority(tasks) == SortPrefix(tasks, Len(tasks))

\* itertools.groupby: runs of consecutive elements with equal key.
RECURSIVE GroupBy(_, _)
GroupBy(order, tasks) ==
    IF order = <<>> THEN <<>>
    ELSE LET key == tasks[order[1]].priority
             differ == {j \in 1..Len(order) : tasks[order[j]].priority # key}
             run == IF differ = {} THEN Len(order) ELSE SetMin(differ) - 1
         IN  <<SubSeq(order, 1, run)>>
                 \o GroupBy(SubSeq(order, run + 1, Len(order)), tasks)

PriorityGroups(tasks) == GroupBy(SortByPriority(tasks), tasks)

\* The ScriptPushResults push can return to _execute_single_script, which
\* always passes content, overwrite=True and executable=True.
SchedPushResults(run_after_upload) ==
    {ConnectionFailed,
     PushResult(UploadResult(FALSE, FALSE, "decode_failed"), None),
     PushResult(UploadResult(FALSE, FALSE, "chmod_failed"), None)}
      \cup (IF run_after_upload
            THEN {PushResult(UploadResult(TRUE, FALSE, ""),
                             Some(ExecutionResult(e))) : e \in Readings({0, 1})}
            ELSE {PushResult(UploadResult(TRUE, FALSE, ""), None)})

\* A plausible slip: only the successful summaries are kept.
GroupResultsSuccessOnly(group) ==
    SelectSeq([k \in 1..Len(group) |->
                  [task |-> group[k],
                   success |-> sSummary[group[k]][1].success,
                   error |-> sSummary[group[k]][1].error]],
              LAMBDA r : r.success)

\* group_results of asyncio.gather, in the order of the group's tasks.
GroupResults(group) ==
    [k \in 1..Len(group) |->
        [task |-> group[k],
         success |-> sSummary[group[k]][1].success,
         error |-> sSummary[group[k]][1].error]]

\* if payload.run_scripts and payload.start_nodes
ScriptsRequested(flags) == flags.run_scripts /\ flags.start_nodes

\* len(result.nodes_created): build returns only when it created every node
\* of the topology.
NodesCreated == Cardinality(NodeNames)

\* A plausible slip: the errors are not looked at.
OverallSuccessOfBuild(errors, nodes_created) == nodes_created > 0

\* overall_success = len(errors) == 0 and len(result.nodes_created) > 0
OverallSuccess(errors, nodes_created) ==
    Len(errors) = 0 /\ nodes_created > 0

InitSched ==
    /\ RcIdle /\ PIdle /\ MIdle /\ RIdle /\ ProjectIdle
    /\ sConfig \in [NodeNames -> {"ok", "missing", "noconsole"}]
    /\ sTasks \in SeqsUpTo([node : NodeNames, priority : 1..MaxPriority],
                           MaxSchedTasks)
    \* node names are interchangeable: the first script is on "n1"
    /\ sTasks # <<>> => sTasks[1].node = "n1"
    /\ sDelay \in BOOLEAN
    /\ sGroups = <<>>
    /\ sGi = 0
    /\ sPc = "start"
    /\ sTaskPc = [t \in 1..Len(sTasks) |-> "idle"]
    /\ sSummary = [t \in 1..Len(sTasks) |-> None]
    /\ sOpened = {}
    /\ sSem = 0
    /\ sSleeps = 0
    /\ sResults = <<>>
    /\ sErrors = <<>>
    /\ sFlags \in [run_scripts : BOOLEAN, start_nodes : BOOLEAN]
    /\ sSuccess = None

\* Collect, sort and group the scripts; return [] when there are none.
SchedEnter ==
    /\ sPc = "start"
    /\ ScriptsRequested(sFlags)
    /\ IF sTasks = <<>>
       THEN /\ sPc' = "returned"
            /\ UNCHANGED <<sGroups, sSem>>
       ELSE /\ sGroups' = PriorityGroups(sTasks)
            /\ sSem' = MAX_CONCURRENT_SCRIPTS
            /\ sPc' = "next"
    /\ UNCHANGED <<sFlags, sSuccess, sConfig, sTasks, sDelay, sGi, sTaskPc, sSummary,
                   sOpened, sSleeps, sResults, sErrors, notS>>

\* A plausible slip: the first group is delayed too.
SleepDueAlways(groups_done, delay) == delay

\* if previous_priority is not None and priority_delay > 0
SleepDue(groups_done, delay) == groups_done > 0 /\ delay

\* The for loop takes the next group: the inter-stage delay (not before the
\* first group), then one coroutine per script handed to asyncio.gather.
SchedNextGroup ==
    /\ sPc = "next"
    /\ sGi < Len(sGroups)
    /\ sSleeps' = IF SleepDue(sGi, sDelay) THEN sSleeps + 1 ELSE sSleeps
    /\ sTaskPc' = [t \in SchedTasks |->
                     IF \E k \in 1..Len(sGroups[sGi + 1]) : sGroups[sGi + 1][k] = t
                     THEN "created" ELSE sTaskPc[t]]
    /\ sPc' = "gather"
    /\ UNCHANGED <<sFlags, sSuccess, sConfig, sTasks, sDelay, sGroups, sGi, sSummary,
                   sOpened, sSem, sResults, sErrors, notS>>

\* _execute_single_script up to its first await: the permit is taken, the
\* node and its console are looked up, and either a failed summary is
\* returned (permit released) or push is called.
SchedTaskStart(t) ==
    /\ sTaskPc[t] = "created"
    /\ sSem > 0
    /\ IF SingleScriptTarget(sConfig[sTasks[t].node]) = "push"
       THEN /\ sTaskPc' = [sTaskPc EXCEPT ![t] = "pushing"]
            /\ sOpened' = sOpened \cup {t}
            /\ sSem' = sSem - 1
            /\ UNCHANGED sSummary
       ELSE /\ sTaskPc' = [sTaskPc EXCEPT ![t] = "done"]
            /\ sSummary' = [sSummary EXCEPT ![t] =
                  Some([success |-> FALSE,
                        error |-> SingleScriptTarget(sConfig[sTasks[t].node])])]
            /\ UNCHANGED <<sOpened, sSem>>
    /\ UNCHANGED <<sFlags, sSuccess, sConfig, sTasks, sDelay, sGroups, sGi, sPc,
                   sSleeps, sResults, sErrors, notS>>

\* The summaries _execute_single_script can build from push's result, over
\* both routers and both values of the script's run_after_upload flag
\* (scenarios.py always runs the script).
SchedSummaries ==
    UNION {UNION {{SingleScriptSummary(caller, run_after_upload, Some(r)) :
                      r \in SchedPushResults(run_after_upload)} :
                  run_after_upload \in
                      (IF caller = "scenarios" THEN {TRUE} ELSE BOOLEAN)} :
           caller \in {"topologies", "scenarios"}}

\* push returns; the summary is built and the permit released.
SchedTaskFinish(t) ==
    /\ sTaskPc[t] = "pushing"
    /\ \E summary \in SchedSummaries :
         sSummary' = [sSummary EXCEPT ![t] = Some(summary)]
    /\ sTaskPc' = [sTaskPc EXCEPT ![t] = "done"]
    /\ sSem' = sSem + 1
    /\ UNCHANGED <<sFlags, sSuccess, sConfig, sTasks, sDelay, sGroups, sGi, sPc,
                   sOpened, sSleeps, sResults, sErrors, notS>>

\* asyncio.gather(*tasks, return_exceptions=True) returns once every task of
\* the group is done; the group's results are appended.
SchedGatherDone ==
    /\ sPc = "gather"
    /\ \A k \in 1..Len(sGroups[sGi + 1]) : sTaskPc[sGroups[sGi + 1][k]] = "done"
    /\ sResults' = sResults \o GroupResults(sGroups[sGi + 1])
    /\ sGi' = sGi + 1
    /\ sPc' = "next"
    /\ UNCHANGED <<sFlags, sSuccess, sConfig, sTasks, sDelay, sGroups, sTaskPc,
                   sSummary, sOpened, sSem, sSleeps, sErrors, notS>>

\* The loop is over: return results.
SchedReturn ==
    /\ sPc = "next"
    /\ sGi = Len(sGroups)
    /\ sPc' = "returned"
    /\ UNCHANGED <<sFlags, sSuccess, sConfig, sTasks, sDelay, sGroups, sGi, sTaskPc,
                   sSummary, sOpened, sSem, sSleeps, sResults, sErrors, notS>>

\* The caller: every failed result that carries an error goes to errors,
\* and the success flag of the response is computed.
DeployCollectErrors ==
    /\ sPc = "returned"
    /\ LET errors == SelectSeq(sResults,
                               LAMBDA r : ~r.success /\ r.error # "none")
       IN  /\ sErrors' = errors
           /\ sSuccess' = Some(OverallSuccess(errors, NodesCreated))
    /\ sPc' = "collected"
    /\ UNCHANGED <<sFlags, sConfig, sTasks, sDelay, sGroups, sGi, sTaskPc,
                   sSummary, sOpened, sSem, sSleeps, sResults, notS>>

\* The caller without run_scripts or without start_nodes: no script is
\* executed and the response is made from the build alone.
DeploySkipScripts ==
    /\ sPc = "start"
    /\ ~ScriptsRequested(sFlags)
    /\ sSuccess' = Some(OverallSuccess(sErrors, NodesCreated))
    /\ sPc' = "skipped"
    /\ UNCHANGED <<sFlags, sConfig, sTasks, sDelay, sGroups, sGi, sTaskPc,
                   sSummary, sOpened, sSem, sSleeps, sResults, sErrors, notS>>

NextSched ==
    \/ SchedEnter
    \/ SchedNextGroup
    \/ \E t \in SchedTasks : SchedTaskStart(t)
    \/ \E t \in SchedTasks : SchedTaskFinish(t)
    \/ SchedGatherDone
    \/ SchedReturn
    \/ DeployCollectErrors
    \/ DeploySkipScripts

SpecSched == InitSched /\ [][NextSched]_vars

----------------------------------------------------------------------------
(* Claims about push_many (SpecMany) and run_scripts (SpecRun).             *)

\* C2: in every reachable state of push_many the number of pushes in flight
\* is at most max(1, concurrency).
C2_InFlightAtMostCap ==
    Cardinality(InFlight) <= (IF mConcurrency >= 1 THEN mConcurrency ELSE 1)

\* C2 witness: the cap (of 2) is reached while other tasks wait for a permit.
C2_Witness ==
    /\ mConcurrency = 2
    /\ Cardinality(InFlight) = 2
    /\ Cardinality({t \in Workers : mPc[t] = "waiting"}) >= 2

\* C4 as stated: a connection failure in run is never thrown past the run
\* call, and a batch whose nodes all resolve always ends with a response that
\* holds a result for every item.
C4_AsStated ==
    /\ \A i \in RunItems : rItems[i] = "ok" => rPc[i] # "raised"
    /\ (rItems # <<>> /\ \A i \in RunItems : rItems[i] = "ok")
         => rHandler # "failed"

----------------------------------------------------------------------------
(* Claims about run_command_with_status (SpecStatus).                       *)

\* The printed sentinel marker has not completely arrived in the window.
WindowEndsBeforeSentinel ==
    rcArrived < SentinelLineStart(rcRemote) + Len(Sentinel)

\* The whole printed sentinel line, line break included, is in the window.
SentinelLineArrived ==
    rcArrived >= SentinelLineStart(rcRemote) + Len(SentinelLine(rcRemote))

\* C5 as stated: whenever the read window ends before the printed sentinel
\* line has arrived, the returned exit code is unknown, whatever the
\* truncated stream holds.
C5_AsStated ==
    (rcPc = "done" /\ WindowEndsBeforeSentinel)
        => rcResult.exit_code = None

\* C5 amended: whenever the read window ends before the printed sentinel
\* marker has completely arrived and the command's own output carries no
\* sentinel marker, the returned exit code is unknown (never a false 0), also
\* when the window holds the echo of the sent line.
C5_UnknownWhenTruncated ==
    (rcPc = "done" /\ WindowEndsBeforeSentinel
        /\ ~Contains(rcRemote.out, Sentinel))
        => rcResult.exit_code = None

\* C5 witness: a truncated window that holds the echoed sentinel, parsed.
C5_Witness ==
    /\ rcPc = "done"
    /\ rcRemote.echo
    /\ WindowEndsBeforeSentinel
    /\ ~Contains(rcRemote.out, Sentinel)
    /\ Contains(RawOutput, Sentinel)
    /\ rcRemote.code = <<"0">>
    /\ rcResult.exit_code = None

\* C6 as stated: for a command that exits 0 whose sentinel line arrived, the
\* exit code is 0, the output is what preceded the sentinel, and the output
\* holds no occurrence of the sentinel marker.
C6_AsStated ==
    (rcPc = "done" /\ rcRemote.code = <<"0">> /\ SentinelLineArrived)
        => /\ rcResult.exit_code = Some(0)
           /\ rcResult.output = SubSeq(RemoteStream(rcRemote), 1,
                                       SentinelLineStart(rcRemote))
           /\ ~Contains(rcResult.output, Sentinel)

\* C6 amended: for a command that exits 0 whose sentinel line arrived, the
\* exit code is 0 and the output is exactly what preceded the printed sentinel
\* line (echo of the sent line included); the output is free of the sentinel
\* marker exactly when no echo and no marker in the command's output preceded
\* the printed line.
C6_ZeroAndOutputBeforeSentinel ==
    (rcPc = "done" /\ rcRemote.code = <<"0">> /\ SentinelLineArrived)
        => /\ rcResult.exit_code = Some(0)
           /\ rcResult.output = EchoPart(rcRemote) \o rcRemote.out
           /\ Contains(rcResult.output, Sentinel)
                <=> (rcRemote.echo \/ Contains(rcRemote.out, Sentinel))

\* C6 witness: exit 0 parsed from a window that also holds the echo.
C6_Witness ==
    /\ rcPc = "done"
    /\ rcRemote.code = <<"0">>
    /\ rcRemote.echo
    /\ rcRemote.out # <<>>
    /\ SentinelLineArrived
    /\ rcResult.exit_code = Some(0)

----------------------------------------------------------------------------
(* Claims about push and _execute_single_script (SpecPush).                 *)

\* The commands that write, decode into, chmod or run the remote file.
TouchingCommands == {"heredoc", "decode", "chmod", "exec"}

\* C3 as stated: push never raises, and any fault in the push sequence
\* (payload acquisition included) yields the connection_failed upload result.
C3_AsStated ==
    /\ pPc # "raised"
    /\ (pPc = "returned" /\ pLocal.fault) => pResult = Some(ConnectionFailed)

\* C7 as stated: with overwrite=false and an existing remote path, push sends
\* no command that touches the remote file and returns skipped / "exists"
\* with no execution, for every outcome of the probe's read window.
C7_AsStated ==
    (pCaller = "direct" /\ ~pSpec.overwrite /\ pRemote.exists)
        => /\ pSent \cap TouchingCommands = {}
           /\ ~pRemote.touched
           /\ (pPc = "returned" /\ ~pLocal.fault)
                => pResult = Some(PushResult(UploadResult(FALSE, TRUE, "exists"),
                                             None))

PushUploadSucceeded == pResult # None /\ pResult[1].upload.success

PushExecutionSucceeded ==
    /\ pResult # None
    /\ pResult[1].execution # None
    /\ pResult[1].execution[1].success

\* C8: on both deployment paths a scheduled task is reported successful
\* exactly when its upload succeeded and, if execution was requested of push
\* (run_after_upload), its execution succeeded.
C8_SuccessIffUploadAndRequestedRun ==
    pPc = "summarised"
        => (pSummary[1].success
              <=> (PushUploadSucceeded
                   /\ (pSpec.run_after_upload => PushExecutionSucceeded)))

\* C8 witness: an upload-only task of a topology reported successful.
C8_Witness ==
    /\ pPc = "summarised"
    /\ pCaller = "topologies"
    /\ ~pSpec.run_after_upload
    /\ PushUploadSucceeded
    /\ pResult[1].execution = None
    /\ pSummary[1].success

----------------------------------------------------------------------------
(* Claims about _execute_embedded_scripts and its caller (SpecSched).       *)

\* The task's node is in the deployed configuration and has a console target.
Resolvable(t) == sConfig[sTasks[t].node] = "ok"

\* The number of entries of the flat result list that belong to task t.
ResultsOf(t) == Cardinality({k \in 1..Len(sResults) : sResults[k].task = t})

SchedulerReturned == sPc \in {"returned", "collected"}

\* C1: priority groups run in ascending priority order with a barrier between
\* them: whenever a script has opened its console session, every script of
\* every smaller priority has finished, whether it succeeded or failed.
C1_BarrierBetweenPriorities ==
    \A t \in sOpened : \A u \in SchedTasks :
        sTasks[u].priority < sTasks[t].priority => sTaskPc[u] = "done"

\* C1 witness: a script is in its console session, not yet finished, while a
\* script of a smaller priority has finished with a failure and another one
\* of that smaller priority with a success; the scripts were not given in
\* priority order.
C1_Witness ==
    \E t \in sOpened :
        /\ sTaskPc[t] = "pushing"
        /\ t < Len(sTasks)
        /\ \E u, v \in SchedTasks :
             /\ u > t
             /\ sTasks[u].priority < sTasks[t].priority
             /\ sTasks[v].priority < sTasks[t].priority
             /\ sTaskPc[u] = "done" /\ ~sSummary[u][1].success
             /\ sTaskPc[v] = "done" /\ sSummary[v][1].success

\* C9: when the scheduler has returned, the flat result list holds exactly
\* one result for every (node, script) pair, carrying that task's outcome,
\* whatever the mix of successes and failures; every script has been
\* executed (a console session was opened for every script whose node
\* resolves), also those of groups that follow a failure.
C9_OneResultPerTask ==
    SchedulerReturned
        => /\ Len(sResults) = Len(sTasks)
           /\ \A t \in SchedTasks :
                /\ ResultsOf(t) = 1
                /\ sTaskPc[t] = "done"
                /\ Resolvable(t) => t \in sOpened
                /\ \E k \in 1..Len(sResults) :
                     /\ sResults[k].task = t
                     /\ sResults[k].success = sSummary[t][1].success
                     /\ sResults[k].error = sSummary[t][1].error

\* C9 witness: the scheduler returned three results; a script of the first
\* group failed in its console session and a script of a later group was
\* executed afterwards and succeeded.
C9_Witness ==
    /\ sPc = "returned"
    /\ Len(sResults) = MaxSchedTasks
    /\ Len(sGroups) >= 2
    /\ \E t, u \in sOpened :
         /\ sTasks[t].priority < sTasks[u].priority
         /\ ~sSummary[t][1].success
         /\ sSummary[u][1].success

\* C10: a task whose node is absent from the deployed configuration, or has
\* no console target, never opens a console session and finishes with a
\* failed result that names the cause; when the scheduler has returned, that
\* task has exactly one failed result and every sibling task has exactly one
\* result, with a console session opened for every sibling whose node
\* resolves.
C10_UnresolvedNodeFailsAlone ==
    \A t \in SchedTasks :
        ~Resolvable(t)
            => /\ t \notin sOpened
               /\ sTaskPc[t] # "pushing"
               /\ sTaskPc[t] = "done"
                    => sSummary[t] =
                         Some([success |-> FALSE,
                               error |-> sConfig[sTasks[t].node]])
               /\ SchedulerReturned
                    => /\ \E k \in 1..Len(sResults) :
                            /\ sResults[k].task = t
                            /\ ~sResults[k].success
                       /\ \A u \in SchedTasks :
                            /\ ResultsOf(u) = 1
                            /\ Resolvable(u) => u \in sOpened

\* C10 witness: the scheduler returned; one task's node is absent or has no
\* console target and the task failed, while a sibling in the same group and
\* a sibling in a later group were executed and succeeded.
C10_Witness ==
    /\ sPc = "returned"
    /\ \E t, u, v \in SchedTasks :
         /\ sConfig[sTasks[t].node] \in {"missing", "noconsole"}
         /\ ~sSummary[t][1].success
         /\ sTasks[u].priority = sTasks[t].priority
         /\ sTasks[v].priority > sTasks[t].priority
         /\ u \in sOpened /\ sSummary[u][1].success
         /\ v \in sOpened /\ sSummary[v][1].success

----------------------------------------------------------------------------
(***************************************************************************)
(* execute_script (api/routers/scenarios_new.py): one script is pushed to  *)
(* and run on every target node of a project, concurrently.                *)
(***************************************************************************)

\* Longest target_nodes list that is enumerated (min_length=1).
MaxExecTargets == 3

\* semaphore = asyncio.Semaphore(8)
EXEC_CONCURRENCY == 8

\* A node of the project as list_nodes returns it: whether it has a console
\* port, and its console type.
ExecNodeInfos == [console : BOOLEAN, console_type : {"telnet", "vnc"}]

ExecTargets == 1..Len(xTargets)

\* A plausible slip: only the console port is looked at.
ExecNodeHasPort(node_info) == node_info.console

\* _execute_on_node: not (not console_port or console_type != "telnet")
ExecNodeHasTelnet(node_info) ==
    node_info.console /\ node_info.console_type = "telnet"

\* The NodeExecutionResult built from what push did: outcome is None when
\* push raised (the except arm), else Some(ScriptPushResult).
NodeExecutionResult(outcome) ==
    IF outcome = None
    THEN [success |-> FALSE, error |-> "exception"]
    ELSE LET r == outcome[1]
             success == /\ r.upload.success
                        /\ (r.execution # None => r.execution[1].success)
         IN  [success |-> success,
              error |-> IF success THEN "none"
                        ELSE IF r.execution # None THEN "execution"
                        ELSE "upload"]

\* successful = sum(1 for r in results if r.success); failed = len - successful
ExecuteScriptResponse(results) ==
    LET successful == Cardinality({i \in 1..Len(results) : results[i][1].success})
    IN  [total_nodes |-> Len(results),
         successful_nodes |-> successful,
         failed_nodes |-> Len(results) - successful]

InitExec ==
    /\ DeployIdle /\ ProjectIdleBut("x")
    /\ xTargets \in SeqsUpTo({None} \cup {Some(n) : n \in ExecNodeInfos},
                             MaxExecTargets)
    /\ xTargets # <<>>
    /\ xHandler = "start"
    /\ xPc = [i \in 1..Len(xTargets) |-> "idle"]
    /\ xSem = 0
    /\ xOpened = {}
    /\ xResults = [i \in 1..Len(xTargets) |-> None]
    /\ xResponse = None

\* find_project_id and list_nodes: LookupError, GNS3APIError or a
\* RequestException end the request with 404, 400 or 502.
ExecLookupFails ==
    /\ xHandler = "start"
    /\ xHandler' \in {"http404", "http400", "http502"}
    /\ UNCHANGED <<xTargets, xPc, xSem, xOpened, xResults, xResponse, notX>>

\* The project's nodes were listed: a target that is not among them ends the
\* request with 404; otherwise one coroutine per target is handed to gather.
ExecValidate ==
    /\ xHandler = "start"
    /\ IF \E i \in ExecTargets : xTargets[i] = None
       THEN /\ xHandler' = "http404"
            /\ UNCHANGED <<xPc, xSem>>
       ELSE /\ xHandler' = "gathering"
            /\ xPc' = [i \in ExecTargets |-> "created"]
            /\ xSem' = EXEC_CONCURRENCY
    /\ UNCHANGED <<xTargets, xOpened, xResults, xResponse, notX>>

\* _execute_on_node up to its first await: the permit is taken, and either
\* the failed result for a node without telnet console is returned (permit
\* released) or push is called.
ExecOnNodeStart(i) ==
    /\ xHandler = "gathering"
    /\ xPc[i] = "created"
    /\ xSem > 0
    /\ IF ExecNodeHasTelnet(xTargets[i][1])
       THEN /\ xPc' = [xPc EXCEPT ![i] = "pushing"]
            /\ xOpened' = xOpened \cup {i}
            /\ xSem' = xSem - 1
            /\ UNCHANGED xResults
       ELSE /\ xPc' = [xPc EXCEPT ![i] = "done"]
            /\ xResults' = [xResults EXCEPT ![i] =
                              Some([success |-> FALSE, error |-> "no_telnet"])]
            /\ UNCHANGED <<xOpened, xSem>>
    /\ UNCHANGED <<xTargets, xHandler, xResponse, notX>>

\* push returns or raises; the result is built and the permit released.
ExecOnNodeFinish(i) ==
    /\ xPc[i] = "pushing"
    /\ \E outcome \in {None} \cup {Some(r) : r \in SchedPushResults(TRUE)} :
         xResults' = [xResults EXCEPT ![i] = Some(NodeExecutionResult(outcome))]
    /\ xPc' = [xPc EXCEPT ![i] = "done"]
    /\ xSem' = xSem + 1
    /\ UNCHANGED <<xTargets, xHandler, xOpened, xResponse, notX>>

\* asyncio.gather(*tasks) returned: the response is built.
ExecRespond ==
    /\ xHandler = "gathering"
    /\ \A i \in ExecTargets : xPc[i] = "done"
    /\ xResponse' = Some(ExecuteScriptResponse(xResults))
    /\ xHandler' = "responded"
    /\ UNCHANGED <<xTargets, xPc, xSem, xOpened, xResults, notX>>

NextExec ==
    \/ ExecLookupFails
    \/ ExecValidate
    \/ \E i \in ExecTargets : ExecOnNodeStart(i)
    \/ \E i \in ExecTargets : ExecOnNodeFinish(i)
    \/ ExecRespond

SpecExec == InitExec /\ [][NextExec]_vars

----------------------------------------------------------------------------
(* Claims about execute_script (SpecExec).                                  *)

\* The target node has no console port or its console is not telnet.
TargetLacksTelnet(i) ==
    ~xTargets[i][1].console \/ xTargets[i][1].console_type # "telnet"

\* C11: in an execute-script request whose k targets all exist, a node
\* without telnet console gets a failed result for which no console session
\* was opened, every node with a telnet console is still executed, and the
\* request ends with a normal response with total_nodes = k and
\* successful_nodes + failed_nodes = k, the failed ones counted as failed.
C11_NoTelnetFailsAlone ==
    (\A i \in ExecTargets : xTargets[i] # None)
        => /\ xHandler \notin {"http404"} \/ xPc = [i \in ExecTargets |-> "idle"]
           /\ \A i \in ExecTargets :
                TargetLacksTelnet(i)
                    => /\ i \notin xOpened
                       /\ xPc[i] = "done" => xResults[i] =
                            Some([success |-> FALSE, error |-> "no_telnet"])
           /\ xHandler = "responded"
                => /\ \A i \in ExecTargets :
                        /\ xResults[i] # None
                        /\ ~TargetLacksTelnet(i) => i \in xOpened
                   /\ xResponse[1].total_nodes = Len(xTargets)
                   /\ xResponse[1].successful_nodes
                        + xResponse[1].failed_nodes = Len(xTargets)
                   /\ xResponse[1].successful_nodes =
                        Cardinality({i \in ExecTargets : xResults[i][1].success})
                   /\ xResponse[1].failed_nodes >=
                        Cardinality({i \in ExecTargets : TargetLacksTelnet(i)})

\* C11 witness: three targets, one without telnet console, the other two
\* executed successfully: a response with 2 successes and 1 failure.
C11_Witness ==
    /\ xHandler = "responded"
    /\ Len(xTargets) = MaxExecTargets
    /\ Cardinality({i \in ExecTargets : TargetLacksTelnet(i)}) = 1
    /\ xResponse[1].successful_nodes = MaxExecTargets - 1
    /\ xResponse[1].failed_nodes = 1

----------------------------------------------------------------------------
(***************************************************************************)
(* ScenarioBuilder.build (core/scenario_builder.py).                       *)
(*                                                                         *)
(* A name or a link reference is a sequence of atoms: words (runs of       *)
(* letters and digits, never two in a row) and the separator characters    *)
(* "-" and "_".  "NODE_" and "node_" are the alias prefix in upper and     *)
(* lower case, "u-u-u-u-u" is a word shaped like a node id (four hyphens). *)
(***************************************************************************)

\* Most node specs in a scenario that is enumerated.
MaxBuildNodes == 2

\* Most link specs in a scenario that is enumerated.
MaxBuildLinks == 1

Separators == {"-", "_"}

\* str.upper on a word.
UpperWord(w) ==
    CASE w = "fw" -> "FW"
      [] w = "firewall" -> "FIREWALL"
      [] w = "openvswitch" -> "OPENVSWITCH"
      [] w = "ovs" -> "OVS"
      [] w = "iptables" -> "IPTABLES"
      [] w = "node_" -> "NODE_"
      [] OTHER -> w

\* The node names that are enumerated: words that differ in case only, a
\* word with a trailing separator, names that carry the FIREWALL,
\* OPENVSWITCH and IPTABLES_ markers.
BuildNames ==
    {<<"fw">>, <<"FW">>, <<"fw", "-">>, <<"firewall">>, <<"openvswitch">>,
     <<"ovs">>, <<"iptables", "-", "fw">>, <<"iptables", "_", "firewall">>}

\* The leading separators of s dropped.
RECURSIVE DropSeparators(_)
DropSeparators(s) ==
    IF s # <<>> /\ s[1] \in Separators THEN DropSeparators(Tail(s)) ELSE s

\* NON_ALNUM.sub("_", name): every run of separators becomes one "_".
RECURSIVE SubNonAlnum(_)
SubNonAlnum(s) ==
    IF s = <<>> THEN <<>>
    ELSE IF s[1] \in Separators
    THEN <<"_">> \o SubNonAlnum(DropSeparators(s))
    ELSE <<s[1]>> \o SubNonAlnum(Tail(s))

\* str.strip("_")
RECURSIVE StripUnderscores(_)
StripUnderscores(s) ==
    IF s = <<>> THEN s
    ELSE IF s[1] = "_" THEN StripUnderscores(Tail(s))
    ELSE IF s[Len(s)] = "_" THEN StripUnderscores(SubSeq(s, 1, Len(s) - 1))
    ELSE s

\* _alias_base: NON_ALNUM.sub("_", name).strip("_").upper()
AliasBase(name) ==
    LET t == StripUnderscores(SubNonAlnum(name))
    IN  [k \in 1..Len(t) |-> UpperWord(t[k])]

\* base.replace("OPENVSWITCH", "OVS")
ReplaceOpenvswitch(base) ==
    [k \in 1..Len(base) |-> IF base[k] = "OPENVSWITCH" THEN "OVS" ELSE base[k]]

\* base.replace("IPTABLES_", ""): every occurrence is removed.
RECURSIVE RemoveIptables(_)
RemoveIptables(base) ==
    IF base = <<>> THEN <<>>
    ELSE IF Len(base) >= 2 /\ base[1] = "IPTABLES" /\ base[2] = "_"
    THEN RemoveIptables(SubSeq(base, 3, Len(base)))
    ELSE <<base[1]>> \o RemoveIptables(Tail(base))

\* f"NODE_{base}"
NodeAlias(base) == <<"NODE_">> \o base

\* alias_variants(name)
AliasVariants(name) ==
    LET base == AliasBase(name)
    IN  {NodeAlias(base)}
          \cup (IF \E k \in 1..Len(base) : base[k] = "OPENVSWITCH"
                THEN {NodeAlias(ReplaceOpenvswitch(base))} ELSE {})
          \cup (IF \E k \in 1..Len(base) : base[k] = "FIREWALL"
                THEN {NodeAlias(<<"FIREWALL">>)} ELSE {})
          \cup (IF Len(base) >= 2 /\ base[1] = "IPTABLES" /\ base[2] = "_"
                THEN {NodeAlias(RemoveIptables(base))} ELSE {})

\* The node ids the simulator hands out, in creation order.
NodeIds == <<"id1", "id2", "id3", "id4">>

\* node.get("node_id") of the i-th created node, as a reference.
NodeId(i) == <<NodeIds[i]>>

\* ref.count("-")
RECURSIVE CountHyphens(_)
CountHyphens(ref) ==
    IF ref = <<>> THEN 0
    ELSE (IF ref[1] = "-" THEN 1 ELSE IF ref[1] = "u-u-u-u-u" THEN 4 ELSE 0)
           + CountHyphens(Tail(ref))

\* ref.upper().startswith("NODE_")
HasAliasPrefix(ref) == ref # <<>> /\ UpperWord(ref[1]) = "NODE_"

\* resolve_endpoint: Some(node id), or None for LookupError.
ResolveEndpoint(ref, name_to_id, alias_to_id) ==
    IF HasAliasPrefix(ref)
    THEN IF ref \in DOMAIN alias_to_id THEN Some(alias_to_id[ref]) ELSE None
    ELSE IF ref \in DOMAIN name_to_id THEN Some(name_to_id[ref])
    ELSE IF CountHyphens(ref) >= 4 THEN Some(ref)
    ELSE None

\* A plausible slip: a later node takes an alias over (plain assignment).
AliasesAssigned(alias_to_id, name, node_id) ==
    [a \in DOMAIN alias_to_id \cup AliasVariants(name) |->
        IF a \in AliasVariants(name) THEN node_id ELSE alias_to_id[a]]

\* for alias in alias_variants(name): alias_to_id.setdefault(alias, node_id)
AliasesSetDefault(alias_to_id, name, node_id) ==
    [a \in DOMAIN alias_to_id \cup AliasVariants(name) |->
        IF a \in DOMAIN alias_to_id THEN alias_to_id[a] ELSE node_id]

BuildNodes == 1..Len(bNames)

\* The references a link spec can use for an endpoint: a node name of the
\* scenario, an alias generated for one of its nodes, an alias no node
\* generates, a node id, a name that is not in the scenario.
LinkRefs ==
    {bNames[i] : i \in BuildNodes}
        \cup UNION {AliasVariants(bNames[i]) : i \in BuildNodes}
        \cup {<<"NODE_", "PLC">>, <<"u-u-u-u-u">>, <<"plc">>}

\* A plausible slip: links are attempted as soon as one node exists.
NodesPhaseOverEarly(created) == created >= 1

\* for spec in nodes_spec: the loop is over when every spec has its node.
NodesPhaseOver(created) == created = Len(bNames)

\* A plausible slip: the refetch is made outside the try.
RefetchLinksUnguarded(ok, listed) ==
    [links_detail |-> listed, warnings |-> 0, raised |-> ~ok]

\* links_detail = []; try: links_detail = list(list_project_links(...))
\* except Exception: warnings.append(...)
RefetchLinks(ok, listed) ==
    [links_detail |-> IF ok THEN listed ELSE 0,
     warnings |-> IF ok THEN 0 ELSE 1,
     raised |-> FALSE]

InitBuild ==
    /\ DeployIdle /\ ProjectIdleBut("b")
    /\ bNames \in SeqsUpTo(BuildNames, MaxBuildNodes)
    /\ bNames # <<>>
    /\ \A i, j \in 1..Len(bNames) : bNames[i] = bNames[j] => i = j
    /\ bLinkCount \in 0..MaxBuildLinks
    /\ bStartNodes \in BOOLEAN
    /\ bPc = "start"
    /\ bNodeCalls = 0
    /\ bCreated = 0
    /\ bNameToId = <<>>
    /\ bAliasToId = <<>>
    /\ bLinkAttempts = 0
    /\ bLinks = 0
    /\ bLastLink = None
    /\ bStarted = 0
    /\ bDetails = 0
    /\ bWarnings = 0
    /\ bRecord = None

\* _resolve_project: the project id is given or found by name, or the lookup
\* raises.
BuildResolveProject ==
    /\ bPc = "start"
    /\ bPc' \in {"nodes", "failed"}
    /\ UNCHANGED <<bRecord, bNames, bLinkCount, bStartNodes, bNodeCalls, bCreated,
                   bNameToId, bAliasToId, bLinkAttempts, bLinks, bLastLink, bStarted,
                   bDetails, bWarnings, notB>>

\* One turn of the node loop: _create_node posts the node; on success the
\* node's name and aliases are registered, on failure build raises.
BuildCreateNode ==
    /\ bPc = "nodes"
    /\ bNodeCalls' = bNodeCalls + 1
    /\ \E ok \in BOOLEAN :
         IF ok
         THEN LET name == bNames[bCreated + 1]
                  node_id == NodeId(bCreated + 1)
              IN  /\ bCreated' = bCreated + 1
                  /\ bNameToId' = [n \in DOMAIN bNameToId \cup {name} |->
                                     IF n = name THEN node_id ELSE bNameToId[n]]
                  /\ bAliasToId' = AliasesSetDefault(bAliasToId, name, node_id)
                  /\ bPc' = IF NodesPhaseOver(bCreated + 1)
                            THEN "links" ELSE "nodes"
         ELSE /\ bPc' = "failed"
              /\ UNCHANGED <<bCreated, bNameToId, bAliasToId>>
    /\ UNCHANGED <<bRecord, bNames, bLinkCount, bStartNodes, bLinkAttempts, bLinks, bLastLink,
                   bStarted, bDetails, bWarnings, notB>>

\* One turn of the link loop: both endpoints are resolved (LookupError ends
\* build), then create_link posts the link (an error ends build).
BuildCreateLink ==
    /\ bPc = "links"
    /\ bLinks < bLinkCount
    /\ \E a_id, b_id \in {ResolveEndpoint(ref, bNameToId, bAliasToId) :
                              ref \in LinkRefs} :
         IF a_id = None \/ b_id = None
         THEN /\ bPc' = "failed"
              /\ UNCHANGED <<bLinkAttempts, bLinks, bLastLink>>
         ELSE /\ bLinkAttempts' = bLinkAttempts + 1
              /\ \E ok \in BOOLEAN :
                   IF ok
                   THEN /\ bLinks' = bLinks + 1
                        /\ UNCHANGED bPc
                   ELSE /\ bPc' = "failed"
                        /\ UNCHANGED bLinks
              /\ bLastLink' = Some(<<a_id[1], b_id[1]>>)
    /\ UNCHANGED <<bRecord, bNames, bLinkCount, bStartNodes, bNodeCalls, bCreated,
                   bNameToId, bAliasToId, bStarted, bDetails, bWarnings, notB>>

\* _create_links returns; start_nodes decides whether the nodes are started.
BuildLinksDone ==
    /\ bPc = "links"
    /\ bLinks = bLinkCount
    /\ bPc' = IF bStartNodes THEN "starting" ELSE "details"
    /\ UNCHANGED <<bRecord, bNames, bLinkCount, bStartNodes, bNodeCalls, bCreated,
                   bNameToId, bAliasToId, bLinkAttempts, bLinks, bLastLink, bStarted,
                   bDetails, bWarnings, notB>>

\* One turn of the start loop: start_node returns True, returns False for an
\* HTTPError / GNS3APIError, and lets any other exception through.
BuildStartNode ==
    /\ bPc = "starting"
    /\ bStarted' = bStarted + 1
    /\ \E outcome \in {"started", "api_error", "transport_error"} :
         bPc' = IF outcome = "transport_error" THEN "failed"
                ELSE IF bStarted + 1 = bCreated THEN "details"
                ELSE "starting"
    /\ UNCHANGED <<bRecord, bNames, bLinkCount, bStartNodes, bNodeCalls, bCreated,
                   bNameToId, bAliasToId, bLinkAttempts, bLinks, bLastLink,
                   bDetails, bWarnings, notB>>

\* One turn of the detail loop: get_node for a created node (an error ends
\* build).
BuildGetNode ==
    /\ bPc = "details"
    /\ \E ok \in BOOLEAN :
         IF ok
         THEN /\ bDetails' = bDetails + 1
              /\ bPc' = IF bDetails + 1 = bCreated THEN "linksdetail"
                        ELSE "details"
         ELSE /\ bPc' = "failed"
              /\ UNCHANGED bDetails
    /\ UNCHANGED <<bRecord, bNames, bLinkCount, bStartNodes, bNodeCalls, bCreated,
                   bNameToId, bAliasToId, bLinkAttempts, bLinks, bLastLink, bStarted,
                   bWarnings, notB>>

\* list_project_links inside try/except Exception: a failure becomes a
\* warning; the config record is made and build returns.
BuildLinksDetail ==
    /\ bPc = "linksdetail"
    /\ \E ok \in BOOLEAN :
         LET fetched == RefetchLinks(ok, bLinks)
         IN  /\ bWarnings' = fetched.warnings
             /\ bRecord' = Some([refetched |-> ok, nodes |-> bDetails,
                                 links |-> fetched.links_detail])
             /\ bPc' = IF fetched.raised THEN "failed" ELSE "built"
    /\ UNCHANGED <<bNames, bLinkCount, bStartNodes, bNodeCalls, bCreated,
                   bNameToId, bAliasToId, bLinkAttempts, bLinks, bLastLink, bStarted,
                   bDetails, notB>>

NextBuild ==
    \/ BuildResolveProject
    \/ BuildCreateNode
    \/ BuildCreateLink
    \/ BuildLinksDone
    \/ BuildStartNode
    \/ BuildGetNode
    \/ BuildLinksDetail

SpecBuild == InitBuild /\ [][NextBuild]_vars

----------------------------------------------------------------------------
(* Claims about ScenarioBuilder.build (SpecBuild).                          *)

\* The node loop of build is over (build went on to the links or beyond).
NodesPhasePassed ==
    bPc \in {"links", "starting", "details", "linksdetail", "built"}

\* C12: for a topology of N node specs with unique names, build never issues
\* more than N node-creation calls, has issued exactly N and seen all N
\* complete once the node loop is over, and whenever a link-creation call has
\* been attempted all N node creations had completed before.
C12_NodesBeforeLinks ==
    /\ bNodeCalls <= Len(bNames)
    /\ bCreated <= bNodeCalls
    /\ NodesPhasePassed => (bNodeCalls = Len(bNames) /\ bCreated = Len(bNames))
    /\ bLinkAttempts > 0 => (bNodeCalls = Len(bNames) /\ bCreated = Len(bNames))

\* C12 witness: a build of the largest topology has attempted a link after
\* creating every node.
C12_Witness ==
    /\ Len(bNames) = MaxBuildNodes
    /\ bLinkAttempts > 0
    /\ bNodeCalls = MaxBuildNodes
    /\ bPc = "built"

\* The first node of the topology that generates the alias.
FirstGenerator(alias) ==
    SetMin({j \in BuildNodes : alias \in AliasVariants(bNames[j])})

\* C13 as stated: after the node-creation phase on unique node names, every
\* alias variant generated for a node resolves to that same node's id.
C13_AsStated ==
    NodesPhasePassed
        => \A i \in BuildNodes : \A alias \in AliasVariants(bNames[i]) :
              ResolveEndpoint(alias, bNameToId, bAliasToId) = Some(NodeId(i))

\* C13 amended: after the node-creation phase on unique node names, every
\* alias variant generated for a node resolves, and it resolves to the id of
\* the first node of the topology that generates this alias: to the node's
\* own id exactly when no earlier node generates the same alias.
C13_AliasResolvesToFirstGenerator ==
    NodesPhasePassed
        => \A i \in BuildNodes : \A alias \in AliasVariants(bNames[i]) :
              ResolveEndpoint(alias, bNameToId, bAliasToId)
                  = Some(NodeId(FirstGenerator(alias)))

\* C13 witness: two nodes with unique names generate a common alias, which
\* resolves to the first node, while the second node has an alias of its own
\* that resolves to the second node.
C13_Witness ==
    /\ NodesPhasePassed
    /\ Len(bNames) >= 2
    /\ \E shared, own \in AliasVariants(bNames[2]) :
         /\ shared \in AliasVariants(bNames[1])
         /\ own \notin AliasVariants(bNames[1])
         /\ ResolveEndpoint(shared, bNameToId, bAliasToId) = Some(NodeId(1))
         /\ ResolveEndpoint(own, bNameToId, bAliasToId) = Some(NodeId(2))

----------------------------------------------------------------------------
(***************************************************************************)
(* LogCollector.setup_collectors (core/log_collector.py): the IT and the   *)
(* OT collector of a student are provisioned concurrently; the call is     *)
(* invoked repeatedly for the same student and project.  A coroutine is    *)
(* suspended at its awaits only: the simulator calls up to the first sleep *)
(* are one step.                                                           *)
(***************************************************************************)

\* Most invocations of setup_collectors in a row that are enumerated.
MaxSetupCalls == 2

\* name_suffix "IT-Collector" and "OT-Collector"
Roles == {"IT", "OT"}

\* What a role's coroutine returns: (snitch_info, errors, reused).
CollectorResult(snitch, errors, reused) ==
    [snitch |-> snitch, errors |-> errors, reused |-> reused]

\* A plausible slip: the first failed role ends the collection (gather
\* without return_exceptions): nothing is returned for the other roles.
CollectResultsAbortOnFailure(results) ==
    IF \E r \in Roles : ~results[r][1].snitch
    THEN [snitch_nodes |-> {},
          errors |-> UNION {{<<r, e>> : e \in results[r][1].errors} : r \in Roles},
          reused |-> \E r \in Roles : results[r][1].reused]
    ELSE [snitch_nodes |-> Roles,
          errors |-> UNION {{<<r, e>> : e \in results[r][1].errors} : r \in Roles},
          reused |-> \E r \in Roles : results[r][1].reused]

\* setup_collectors: the loop over the gathered results.
CollectResults(results) ==
    [snitch_nodes |-> {r \in Roles : results[r][1].snitch},
     errors |-> UNION {{<<r, e>> : e \in results[r][1].errors} : r \in Roles},
     reused |-> \E r \in Roles : results[r][1].reused]

\* A plausible slip: the lookup by name never finds the node.
CollectorMissing(count) == FALSE

\* _create_collector_node: existing = _find_node_by_name(node_name)
CollectorExists(count) == count > 0

\* What the console session of _ensure_syslog_running meets: whether the
\* node has a console target, whether the console connects, and what the
\* start and the process lookup of each attempt do ("digits": pgrep printed
\* a pid; "blank": it printed none; "start_raised", "lookup_raised": the
\* command raised).
AttemptOutcomes == {"digits", "blank", "start_raised", "lookup_raised"}

\* What lies behind the end of a session is left out.
SyslogSessions ==
    [target : BOOLEAN, connects : {FALSE}, first : {"blank"}, second : {"blank"}]
      \cup [target : {TRUE}, connects : {TRUE},
            first : AttemptOutcomes \ {"blank"}, second : {"blank"}]
      \cup [target : {TRUE}, connects : {TRUE},
            first : {"blank"}, second : AttemptOutcomes]

\* A plausible slip: a third start after the second failed lookup.
EnsureSyslogRunningThrice(session) ==
    IF ~session.target \/ ~session.connects
    THEN [starts |-> 0, running |-> FALSE]
    ELSE IF session.first # "blank"
    THEN [starts |-> 1, running |-> session.first = "digits"]
    ELSE IF session.second # "blank"
    THEN [starts |-> 2, running |-> session.second = "digits"]
    ELSE [starts |-> 3, running |-> FALSE]

\* _ensure_syslog_running: how often "syslog-ng" was run, and the value
\* returned.
EnsureSyslogRunning(session) ==
    IF ~session.target \/ ~session.connects
    THEN [starts |-> 0, running |-> FALSE]
    ELSE IF session.first # "blank"
    THEN [starts |-> 1, running |-> session.first = "digits"]
    ELSE [starts |-> 2, running |-> session.second = "digits"]

\* setup_logging_for_student: inject_prompt_command is called unless
\* setup_collectors returned no collector.
InstrumentationCalled(returned) == returned.snitch_nodes # {}

\* An IPv4 address in the output of hostname -I, as its first two octets.
Addresses == {<<127, 0>>, <<169, 254>>, <<169, 1>>, <<10, 0>>}

\* What hostname -I prints: the addresses found by the pattern, in order.
HostnameOutputs ==
    {<<>>, <<<<169, 254>>>>, <<<<169, 1>>>>, <<<<127, 0>>, <<10, 0>>>>}

\* A plausible slip: only loopback addresses are passed over.
ParseIpSkipsLoopbackOnly(output) ==
    LET usable == {i \in DOMAIN output : output[i][1] # 127}
    IN  IF usable = {} THEN None ELSE Some(output[SetMin(usable)])

\* _parse_ip_from_output: the first address that starts with neither
\* "127." nor "169.254."
ParseIpFromOutput(output) ==
    LET usable == {i \in DOMAIN output :
                      /\ output[i][1] # 127
                      /\ ~(output[i][1] = 169 /\ output[i][2] = 254)}
    IN  IF usable = {} THEN None ELSE Some(output[SetMin(usable)])

\* What the console session of _get_node_ip_address meets: whether the node
\* has a console target, whether the console connects, what the two
\* hostname -I commands print (None: the command raised), and whether
\* dhclient raised.  What lies behind the end of a session is left out.
AddressSessions ==
    [target : BOOLEAN, connects : {FALSE}, first : {None},
     dhclient_raised : {FALSE}, second : {None}]
      \cup [target : {TRUE}, connects : {TRUE},
            first : {Some(o) : o \in HostnameOutputs} \cup {None},
            dhclient_raised : {TRUE}, second : {None}]
      \cup [target : {TRUE}, connects : {TRUE},
            first : {Some(o) : o \in HostnameOutputs} \cup {None},
            dhclient_raised : {FALSE},
            second : {Some(o) : o \in HostnameOutputs} \cup {None}]

\* _get_node_ip_address: how often hostname -I and dhclient were run, and
\* the address returned (None when none was obtained).
GetNodeIpAddress(session) ==
    IF ~session.target \/ ~session.connects
    THEN [queries |-> 0, dhcp |-> 0, ip |-> None]
    ELSE IF session.first = None
    THEN [queries |-> 1, dhcp |-> 0, ip |-> None]
    ELSE IF ParseIpFromOutput(session.first[1]) # None
    THEN [queries |-> 1, dhcp |-> 0, ip |-> ParseIpFromOutput(session.first[1])]
    ELSE IF session.dhclient_raised
    THEN [queries |-> 1, dhcp |-> 1, ip |-> None]
    ELSE IF session.second = None
    THEN [queries |-> 2, dhcp |-> 1, ip |-> None]
    ELSE [queries |-> 2, dhcp |-> 1, ip |-> ParseIpFromOutput(session.second[1])]

InitCollect ==
    /\ DeployIdle /\ ProjectIdleBut("k")
    /\ kSwitch \in [Roles -> BOOLEAN]
    /\ kNodes \in [Roles -> {0, 1}]
    /\ kLinked = [r \in Roles |-> kNodes[r] > 0]
    /\ kCreatedIn = [r \in Roles |-> 0]
    /\ kCall = 1
    /\ kAtStart = {r \in Roles : kNodes[r] > 0}
    /\ kPc = "start"
    /\ kRolePc = [r \in Roles |-> "idle"]
    /\ kRoleResult = [r \in Roles |-> None]
    /\ kReturn = None
    /\ kSyslog = [r \in Roles |-> None]
    /\ kAddress = [r \in Roles |-> None]

\* _find_template_id: the template is found and one coroutine per role is
\* handed to gather, or the lookup raises.
SetupCollectorsEnter ==
    /\ kPc = "start"
    /\ \E found \in BOOLEAN :
         IF found
         THEN /\ kPc' = "gathering"
              /\ kRolePc' = [r \in Roles |-> "created"]
         ELSE /\ kPc' = "raised"
              /\ UNCHANGED kRolePc
    /\ UNCHANGED <<kAddress, kSyslog, kSwitch, kNodes, kLinked, kCreatedIn, kCall, kAtStart, kRoleResult,
                   kReturn, notK>>

\* The coroutine of role r finished with this result.
RoleDone(r, result) ==
    /\ kRolePc' = [kRolePc EXCEPT ![r] = "done"]
    /\ kRoleResult' = [kRoleResult EXCEPT ![r] = Some(result)]

\* _setup_single_collector up to its first await: the node is reused or
\* created (after the switch was found), a created node is connected to the
\* switch (the outcome is ignored), the node is refreshed and started.  Any
\* exception ends the coroutine with an error entry.
SetupCollectorNode(r) ==
    /\ kPc = "gathering"
    /\ kRolePc[r] = "created"
    /\ \E lookup_ok, create_ok, link_ok, refresh_ok \in BOOLEAN :
         IF ~lookup_ok
         THEN /\ RoleDone(r, CollectorResult(FALSE, {"lookup_failed"}, FALSE))
              /\ UNCHANGED <<kNodes, kLinked, kCreatedIn>>
         ELSE IF CollectorExists(kNodes[r])
         THEN /\ UNCHANGED <<kNodes, kLinked, kCreatedIn>>
              /\ IF refresh_ok
                 THEN /\ kRolePc' = [kRolePc EXCEPT ![r] = "booting"]
                      /\ kRoleResult' = [kRoleResult EXCEPT ![r] =
                            Some(CollectorResult(FALSE, {}, TRUE))]
                 ELSE RoleDone(r, CollectorResult(FALSE, {"refresh_failed"}, TRUE))
         ELSE IF ~kSwitch[r]
         THEN /\ RoleDone(r, CollectorResult(FALSE, {"switch_missing"}, FALSE))
              /\ UNCHANGED <<kNodes, kLinked, kCreatedIn>>
         ELSE IF ~create_ok
         THEN /\ RoleDone(r, CollectorResult(FALSE, {"create_failed"}, FALSE))
              /\ UNCHANGED <<kNodes, kLinked, kCreatedIn>>
         ELSE /\ kNodes' = [kNodes EXCEPT ![r] = @ + 1]
              /\ kLinked' = [kLinked EXCEPT ![r] = link_ok]
              /\ kCreatedIn' = [kCreatedIn EXCEPT ![r] = kCall]
              /\ IF refresh_ok
                 THEN /\ kRolePc' = [kRolePc EXCEPT ![r] = "booting"]
                      /\ kRoleResult' = [kRoleResult EXCEPT ![r] =
                            Some(CollectorResult(FALSE, {}, FALSE))]
                 ELSE RoleDone(r, CollectorResult(FALSE, {"refresh_failed"}, FALSE))
    /\ UNCHANGED <<kAddress, kSyslog, kSwitch, kCall, kAtStart, kPc, kReturn, notK>>

\* After the boot delay: _get_node_ip_address returns an address or None;
\* without an address the coroutine returns (None, errors, reused).
SetupCollectorAddress(r) ==
    /\ kRolePc[r] = "booting"
    /\ \E session \in AddressSessions :
         LET got == GetNodeIpAddress(session)
         IN  /\ kAddress' = [kAddress EXCEPT ![r] =
                    Some([seen |-> SubSeq(<<session.first, session.second>>,
                                          1, got.queries),
                          dhcp |-> got.dhcp, ip |-> got.ip])]
             /\ IF got.ip # None
                THEN /\ kRolePc' = [kRolePc EXCEPT ![r] = "syslog"]
                     /\ UNCHANGED kRoleResult
                ELSE RoleDone(r, CollectorResult(FALSE, {"no_ip"},
                                                 kRoleResult[r][1].reused))
    /\ UNCHANGED <<kSyslog, kSwitch, kNodes, kLinked, kCreatedIn, kCall, kAtStart, kPc,
                   kReturn, notK>>

\* _ensure_syslog_running: a daemon that is not confirmed running is a
\* warning; the snitch info is returned either way.
SetupCollectorSyslog(r) ==
    /\ kRolePc[r] = "syslog"
    /\ \E session \in SyslogSessions :
         LET verified == EnsureSyslogRunning(session)
         IN  /\ kSyslog' = [kSyslog EXCEPT ![r] = Some(verified)]
             /\ RoleDone(r, CollectorResult(TRUE,
                                IF verified.running THEN {} ELSE {"syslog_warning"},
                                kRoleResult[r][1].reused))
    /\ UNCHANGED <<kAddress, kSwitch, kNodes, kLinked, kCreatedIn, kCall, kAtStart, kPc,
                   kReturn, notK>>

\* gather returned: the results of the roles are merged and returned.
SetupCollectorsReturn ==
    /\ kPc = "gathering"
    /\ \A r \in Roles : kRolePc[r] = "done"
    /\ kReturn' = Some(CollectResults(kRoleResult))
    /\ kPc' = "returned"
    /\ UNCHANGED <<kAddress, kSyslog, kSwitch, kNodes, kLinked, kCreatedIn, kCall, kAtStart, kRolePc,
                   kRoleResult, notK>>

\* setup_collectors is invoked again for the same student and project.
SetupCollectorsAgain ==
    /\ kPc \in {"returned", "raised"}
    /\ kCall < MaxSetupCalls
    /\ kCall' = kCall + 1
    /\ kAtStart' = {r \in Roles : kNodes[r] > 0}
    /\ kPc' = "start"
    /\ kRolePc' = [r \in Roles |-> "idle"]
    /\ kRoleResult' = [r \in Roles |-> None]
    /\ kReturn' = None
    /\ kSyslog' = [r \in Roles |-> None]
    /\ kAddress' = [r \in Roles |-> None]
    /\ UNCHANGED <<kSwitch, kNodes, kLinked, kCreatedIn, notK>>

NextCollect ==
    \/ SetupCollectorsEnter
    \/ \E r \in Roles : SetupCollectorNode(r)
    \/ \E r \in Roles : SetupCollectorAddress(r)
    \/ \E r \in Roles : SetupCollectorSyslog(r)
    \/ SetupCollectorsReturn
    \/ SetupCollectorsAgain

SpecCollect == InitCollect /\ [][NextCollect]_vars

----------------------------------------------------------------------------
(* Claims about setup_collectors (SpecCollect).                             *)

\* The error entries of role r in the returned error list.
ReturnedErrorsOf(r) == {e \in kReturn[1].errors : e[1] = r}

\* C14: provisioning never creates a second node for a role, and when both
\* collector nodes were created by the first invocation, then after the
\* second invocation the project still holds exactly one node per role, the
\* second invocation created none, and it reports reused_existing = true
\* (unless the simulator failed the node lookup of both roles).
C14_SecondCallReuses ==
    /\ \A r \in Roles : kNodes[r] <= 1
    /\ (kCall >= 2 /\ \A r \in Roles : kCreatedIn[r] = 1)
         => /\ \A r \in Roles : kNodes[r] = 1
            /\ kPc = "returned"
                 => (kReturn[1].reused
                       <=> \E r \in Roles :
                             <<r, "lookup_failed">> \notin kReturn[1].errors)

\* C14 witness: the first invocation created both collectors; the second
\* invocation returned both of them, created nothing and reports reuse.
C14_Witness ==
    /\ kCall = 2
    /\ kPc = "returned"
    /\ \A r \in Roles : kCreatedIn[r] = 1 /\ kNodes[r] = 1
    /\ kReturn[1].reused
    /\ kReturn[1].snitch_nodes = Roles

\* C15: when setup_collectors returns, every role ran to its end; a role is
\* returned in snitch_nodes exactly when its own provisioning ended with a
\* collector, whatever happened to the other role; the provisioning failure
\* of a role appears as an error entry of that role, and the error list holds
\* nothing but the entries of the roles' own results.
C15_RolesIndependent ==
    kPc = "returned"
        => \A r \in Roles :
             /\ kRolePc[r] = "done"
             /\ r \in kReturn[1].snitch_nodes <=> kRoleResult[r][1].snitch
             /\ ReturnedErrorsOf(r) = {<<r, e>> : e \in kRoleResult[r][1].errors}
             /\ ~kRoleResult[r][1].snitch => ReturnedErrorsOf(r) # {}

\* C15 witness: the IT role failed because its switch is missing, the OT role
\* was provisioned to the end and returned; the error list holds the one
\* entry of the IT role.
C15_Witness ==
    /\ kPc = "returned"
    /\ kReturn[1].snitch_nodes = {"OT"}
    /\ kReturn[1].errors = {<<"IT", "switch_missing">>}
    /\ kCreatedIn["OT"] = kCall

----------------------------------------------------------------------------
(***************************************************************************)
(* GNS3Client.delete_all_nodes (core/gns3_client.py) and its caller        *)
(* delete_project_nodes (api/routers/topologies.py).                       *)
(*                                                                         *)
(* A request to the simulator ends in one of three ways: "ok"; "api_error" *)
(* (a response that is not ok: _handle_response raises GNS3APIError);      *)
(* "transport_error" (the session raises a requests exception that is not  *)
(* an HTTPError, e.g. ConnectionError or Timeout).                         *)
(***************************************************************************)

\* Most links of a project that are enumerated.
MaxProjectLinks == 2

\* Most nodes of a project that are enumerated.
MaxProjectNodes == 2

RequestOutcomes == {"ok", "api_error", "transport_error"}

\* except (requests.HTTPError, GNS3APIError)
CaughtAsApiError(outcome) == outcome = "api_error"

InitDelete ==
    /\ DeployIdle /\ ProjectIdleBut("d")
    /\ dLinkList \in SeqsUpTo(BOOLEAN, MaxProjectLinks)
    /\ dNodeList \in SeqsUpTo(BOOLEAN, MaxProjectNodes)
    /\ dPc = "stop"
    /\ dTrace = <<>>
    /\ dIdx = 0
    /\ dLinksDeleted = 0
    /\ dNodesDeleted = 0
    /\ dFailed = {}
    /\ dErrors = <<>>
    /\ dResponse = None

\* stop_all_nodes: True, or False for a caught error; the value is ignored.
\* An exception that is not caught leaves delete_all_nodes.
DeleteStopAll ==
    /\ dPc = "stop"
    /\ dTrace' = Append(dTrace, "stop")
    /\ \E outcome \in RequestOutcomes :
         dPc' = IF outcome = "ok" \/ CaughtAsApiError(outcome)
                THEN "list_links" ELSE "raised"
    /\ UNCHANGED <<dLinkList, dNodeList, dIdx, dLinksDeleted, dNodesDeleted,
                   dFailed, dErrors, dResponse, notD>>

\* list_project_links inside the first try: a caught error is appended to
\* errors and the node phase follows.
DeleteListLinks ==
    /\ dPc = "list_links"
    /\ dTrace' = Append(dTrace, "list_links")
    /\ \E outcome \in RequestOutcomes :
         IF outcome = "ok"
         THEN /\ dPc' = IF dLinkList = <<>> THEN "list_nodes" ELSE "links"
              /\ dIdx' = 0
              /\ UNCHANGED dErrors
         ELSE IF CaughtAsApiError(outcome)
         THEN /\ dPc' = "list_nodes"
              /\ dErrors' = Append(dErrors, "links")
              /\ UNCHANGED dIdx
         ELSE /\ dPc' = "raised"
              /\ UNCHANGED <<dIdx, dErrors>>
    /\ UNCHANGED <<dLinkList, dNodeList, dLinksDeleted, dNodesDeleted,
                   dFailed, dResponse, notD>>

\* One turn of the link loop: a link without link_id is skipped; delete_link
\* returns True (counted) or False for a caught error (nothing is recorded).
DeleteLink ==
    /\ dPc = "links"
    /\ dIdx' = dIdx + 1
    /\ IF ~dLinkList[dIdx + 1]
       THEN /\ dPc' = IF dIdx + 1 = Len(dLinkList) THEN "list_nodes" ELSE "links"
            /\ UNCHANGED <<dTrace, dLinksDeleted, dFailed>>
       ELSE /\ dTrace' = Append(dTrace, "delete_link")
            /\ \E outcome \in RequestOutcomes :
                 /\ dLinksDeleted' = IF outcome = "ok" THEN dLinksDeleted + 1
                                     ELSE dLinksDeleted
                 /\ dFailed' = IF outcome = "ok" THEN dFailed
                               ELSE dFailed \cup {"link"}
                 /\ dPc' = IF outcome # "ok" /\ ~CaughtAsApiError(outcome)
                           THEN "raised"
                           ELSE IF dIdx + 1 = Len(dLinkList) THEN "list_nodes"
                           ELSE "links"
    /\ UNCHANGED <<dLinkList, dNodeList, dNodesDeleted, dErrors, dResponse,
                   notD>>

\* list_nodes inside the second try.
DeleteListNodes ==
    /\ dPc = "list_nodes"
    /\ dTrace' = Append(dTrace, "list_nodes")
    /\ \E outcome \in RequestOutcomes :
         IF outcome = "ok"
         THEN /\ dPc' = IF dNodeList = <<>> THEN "returned" ELSE "nodes"
              /\ dIdx' = 0
              /\ UNCHANGED dErrors
         ELSE IF CaughtAsApiError(outcome)
         THEN /\ dPc' = "returned"
              /\ dErrors' = Append(dErrors, "nodes")
              /\ UNCHANGED dIdx
         ELSE /\ dPc' = "raised"
              /\ UNCHANGED <<dIdx, dErrors>>
    /\ UNCHANGED <<dLinkList, dNodeList, dLinksDeleted, dNodesDeleted,
                   dFailed, dResponse, notD>>

\* One turn of the node loop, like the link loop.
DeleteNode ==
    /\ dPc = "nodes"
    /\ dIdx' = dIdx + 1
    /\ IF ~dNodeList[dIdx + 1]
       THEN /\ dPc' = IF dIdx + 1 = Len(dNodeList) THEN "returned" ELSE "nodes"
            /\ UNCHANGED <<dTrace, dNodesDeleted, dFailed>>
       ELSE /\ dTrace' = Append(dTrace, "delete_node")
            /\ \E outcome \in RequestOutcomes :
                 /\ dNodesDeleted' = IF outcome = "ok" THEN dNodesDeleted + 1
                                     ELSE dNodesDeleted
                 /\ dFailed' = IF outcome = "ok" THEN dFailed
                               ELSE dFailed \cup {"node"}
                 /\ dPc' = IF outcome # "ok" /\ ~CaughtAsApiError(outcome)
                           THEN "raised"
                           ELSE IF dIdx + 1 = Len(dNodeList) THEN "returned"
                           ELSE "nodes"
    /\ UNCHANGED <<dLinkList, dNodeList, dLinksDeleted, dErrors, dResponse,
                   notD>>

\* delete_project_nodes: success = len(errors) == 0
DeleteRespond ==
    /\ dPc = "returned"
    /\ dResponse' = Some([nodes_deleted |-> dNodesDeleted,
                          links_deleted |-> dLinksDeleted,
                          success |-> (dErrors = <<>>),
                          errors |-> dErrors])
    /\ dPc' = "responded"
    /\ UNCHANGED <<dLinkList, dNodeList, dTrace, dIdx, dLinksDeleted,
                   dNodesDeleted, dFailed, dErrors, notD>>

NextDelete ==
    \/ DeleteStopAll
    \/ DeleteListLinks
    \/ DeleteLink
    \/ DeleteListNodes
    \/ DeleteNode
    \/ DeleteRespond

SpecDelete == InitDelete /\ [][NextDelete]_vars

----------------------------------------------------------------------------
(* Claims about delete_all_nodes (SpecDelete).                              *)

DeleteEnded == dPc \in {"returned", "raised", "responded"}

\* The position of the first request of this kind in the trace (0: none).
FirstRequest(kind) ==
    IF \E k \in 1..Len(dTrace) : dTrace[k] = kind
    THEN SetMin({k \in 1..Len(dTrace) : dTrace[k] = kind}) ELSE 0

\* The position of the last request of this kind in the trace (0: none).
LastRequest(kind) ==
    IF \E k \in 1..Len(dTrace) : dTrace[k] = kind
    THEN SetMax({k \in 1..Len(dTrace) : dTrace[k] = kind}) ELSE 0

\* C16 as stated: the requests go out in the order stop-all, link deletions,
\* node deletions, and when delete_all_nodes has ended the node deletions
\* were attempted (the nodes were listed), whatever failed in stop-all, in
\* listing the links or in a link deletion.
C16_AsStated ==
    /\ dTrace # <<>> => dTrace[1] = "stop"
    /\ FirstRequest("delete_node") > 0
         => LastRequest("delete_link") < FirstRequest("delete_node")
    /\ DeleteEnded => FirstRequest("list_nodes") > 0

\* C17 as stated: whenever a single link deletion or node deletion failed,
\* the list delete_all_nodes returns is not empty and the caller's success
\* flag is false.
C17_AsStated ==
    (dPc = "responded" /\ dFailed # {})
        => /\ dResponse[1].errors # <<>>
           /\ ~dResponse[1].success

----------------------------------------------------------------------------
(***************************************************************************)
(* setup_logging (api/routers/logging.py) over the StudentRepository       *)
(* (core/student_store.py).  A student name is a sequence of characters.   *)
(* A request runs without suspension from its start to the call of         *)
(* setup_logging_for_student (_get_project_id is synchronous), and is      *)
(* resumed when the provisioning has ended; other requests run in between. *)
(***************************************************************************)

\* Most setup requests in flight.
MaxSetupRequests == 2

SetupRequests == 1..MaxSetupRequests

RawNames == {<<"A">>, <<"a", "!", " ">>, <<"!">>, <<"a", " ", "B">>}

ProjectIds == {"p1", "p2"}

\* str.lower() on the characters of the student names
LowerChar(c) ==
    CASE c = "A" -> "a"
      [] c = "B" -> "b"
      [] OTHER -> c

\* \w or "-": what re.sub(r"[^\w\-]", "") keeps
IsNameChar(c) == c \in {"a", "b", "A", "B", "_", "-"}

RECURSIVE StripSpaces(_)
\* str.strip()
StripSpaces(s) ==
    IF s = <<>> THEN s
    ELSE IF Head(s) = " " THEN StripSpaces(Tail(s))
    ELSE IF s[Len(s)] = " " THEN StripSpaces(SubSeq(s, 1, Len(s) - 1))
    ELSE s

\* sanitize_student_name: None stands for the ValueError
sanitize_student_name(name) ==
    LET stripped == StripSpaces(name)
        replaced == [i \in DOMAIN stripped |->
                        IF stripped[i] = " " THEN "_" ELSE stripped[i]]
        kept     == SelectSeq(replaced, IsNameChar)
    IN  IF kept = <<>> THEN None
        ELSE Some([i \in DOMAIN kept |-> LowerChar(kept[i])])

\* StudentRepository._get_path: one file per sanitized name
SessionPath(student_name) == sanitize_student_name(student_name)[1]

\* StudentRepository.get
RepoGet(files, student_name) ==
    IF \E f \in files : f.path = SessionPath(student_name)
    THEN Some(CHOOSE f \in files : f.path = SessionPath(student_name))
    ELSE None

\* StudentRepository.save: open(path, "w") replaces the file of that path
RepoSave(files, session) ==
    {f \in files : f.path # SessionPath(session.name)}
        \cup {[path |-> SessionPath(session.name),
               display_name |-> session.display_name,
               project_id |-> session.project_id]}

\* A plausible slip: the existing session is not compared with the project.
SessionConflictIgnored(existing_session, project_id) == FALSE

\* if existing_session and existing_session.project_id != project_id
SessionConflict(existing_session, project_id) ==
    /\ existing_session # None
    /\ existing_session[1].project_id # project_id

\* The sessions a storage directory can hold when a request arrives.
StoredSessions ==
    {{}} \cup
    {{[path |-> SessionPath(n), display_name |-> StripSpaces(n),
       project_id |-> p]} :
        n \in {m \in RawNames : sanitize_student_name(m) # None},
        p \in ProjectIds}

InitSession ==
    /\ DeployIdle /\ ProjectIdleBut("l")
    /\ lFiles \in StoredSessions
    /\ lPc = [r \in SetupRequests |-> "idle"]
    /\ lReq = [r \in SetupRequests |-> None]
    /\ lSeen = [r \in SetupRequests |-> None]
    /\ lProvisioned = [r \in SetupRequests |-> FALSE]
    /\ lStatus = [r \in SetupRequests |-> ""]

\* The request ends with this HTTP status.
SetupRespond(r, code) ==
    /\ lPc' = [lPc EXCEPT ![r] = "done"]
    /\ lStatus' = [lStatus EXCEPT ![r] = code]

\* setup_logging up to its await: sanitize the name, read the session,
\* resolve the project, compare, call setup_logging_for_student.
SetupStart(r) ==
    /\ lPc[r] = "idle"
    /\ \E name \in RawNames,
          resolution \in ProjectIds \cup {"missing", "not_found", "api_error",
                                          "transport_error"} :
         /\ lReq' = [lReq EXCEPT ![r] = Some([name |-> name,
                                              project |-> resolution])]
         /\ IF sanitize_student_name(name) = None
            THEN /\ SetupRespond(r, "400")
                 /\ UNCHANGED <<lSeen, lProvisioned>>
            ELSE
              /\ lSeen' = [lSeen EXCEPT ![r] = RepoGet(lFiles, name)]
              /\ IF resolution \notin ProjectIds
                 THEN /\ SetupRespond(r,
                            CASE resolution = "missing" -> "400"
                              [] resolution = "not_found" -> "404"
                              [] resolution = "api_error" -> "api_status"
                              [] OTHER -> "500")
                      /\ UNCHANGED lProvisioned
                 ELSE IF SessionConflict(RepoGet(lFiles, name), resolution)
                 THEN /\ SetupRespond(r, "409")
                      /\ UNCHANGED lProvisioned
                 ELSE /\ lPc' = [lPc EXCEPT ![r] = "provisioning"]
                      /\ lProvisioned' = [lProvisioned EXCEPT ![r] = TRUE]
                      /\ UNCHANGED lStatus
    /\ UNCHANGED <<lFiles, notL>>

\* setup_logging after its await: an exception of the provisioning becomes
\* an error response; otherwise the session is saved.
SetupFinish(r) ==
    /\ lPc[r] = "provisioning"
    /\ \E outcome \in {"ok", "lookup_error", "api_error", "exception"} :
         IF outcome = "ok"
         THEN /\ lFiles' = RepoSave(lFiles,
                              [name |-> sanitize_student_name(lReq[r][1].name)[1],
                               display_name |-> StripSpaces(lReq[r][1].name),
                               project_id |-> lReq[r][1].project])
              /\ SetupRespond(r, "200")
         ELSE /\ SetupRespond(r, CASE outcome = "lookup_error" -> "404"
                                   [] outcome = "api_error" -> "api_status"
                                   [] OTHER -> "500")
              /\ UNCHANGED lFiles
    /\ UNCHANGED <<lReq, lSeen, lProvisioned, notL>>

NextSession ==
    \/ \E r \in SetupRequests : SetupStart(r)
    \/ \E r \in SetupRequests : SetupFinish(r)

SpecSession == InitSession /\ [][NextSession]_vars

----------------------------------------------------------------------------
(* Claims about setup_logging (SpecSession).                                *)

\* Request r arrived while a session of its student for another project
\* was stored.
ArrivedInConflict(r) ==
    /\ lReq[r] # None
    /\ lReq[r][1].project \in ProjectIds
    /\ lSeen[r] # None
    /\ lSeen[r][1].project_id # lReq[r][1].project

\* C18: the repository holds at most one session per student; a request
\* that arrived while its student's session pointed at another project was
\* answered 409 without calling the provisioning, and the step that rejects
\* it leaves the stored sessions unchanged; a request that ends with 200
\* leaves its own session, for its project, as the student's stored one.
C18_OneSessionPerStudent ==
    /\ [](/\ \A f, g \in lFiles : f.path = g.path => f = g
          /\ \A r \in SetupRequests :
               ArrivedInConflict(r)
                 => /\ lStatus[r] = "409"
                    /\ ~lProvisioned[r])
    /\ [][\A r \in SetupRequests :
            /\ (lStatus[r] # "409" /\ lStatus'[r] = "409") => lFiles' = lFiles
            /\ (lStatus[r] # "200" /\ lStatus'[r] = "200")
                 => /\ RepoGet(lFiles', lReq[r][1].name) # None
                    /\ RepoGet(lFiles', lReq[r][1].name)[1].project_id
                         = lReq[r][1].project
                    /\ RepoGet(lFiles', lReq[r][1].name)[1].display_name
                         = StripSpaces(lReq[r][1].name)]_vars

\* Both cases happened: one request was rejected for the conflict and
\* another one overwrote the session of a student for the same project.
C18_Witness ==
    \E r, q \in SetupRequests :
        /\ ArrivedInConflict(r) /\ lStatus[r] = "409"
        /\ lStatus[q] = "200" /\ lSeen[q] # None
        /\ lSeen[q][1].project_id = lReq[q][1].project
        /\ lSeen[q][1].display_name # StripSpaces(lReq[q][1].name)

----------------------------------------------------------------------------
(***************************************************************************)
(* teardown_logging (api/routers/logging.py), teardown_logging_for_student *)
(* and LogCollector.delete_collector_nodes (core/log_collector.py).        *)
(* A node name is a sequence of words and "-" separators.                  *)
(***************************************************************************)

\* Most nodes of the project.
MaxTeardownNodes == 2

Students == {<<"ann">>, <<"ann", "-", "marie">>, <<"bob">>}

TeardownNodeNames ==
    {<<"ann", "-", "IT", "-", "Collector">>,
     <<"ann", "-", "OT", "-", "Collector">>,
     <<"ann", "-", "marie", "-", "IT", "-", "Collector">>,
     <<"bob", "-", "OT", "-", "Collector">>,
     <<"ann", "-", "Collectors", "-", "PC">>,
     <<"ann", "-", "PC">>,
     <<"IT", "-", "Collector">>}

\* name.startswith(prefix)
StartsWith(name, prefix) ==
    /\ Len(name) >= Len(prefix)
    /\ SubSeq(name, 1, Len(prefix)) = prefix

\* "Collector" in name
ContainsCollector(name) ==
    \E i \in DOMAIN name : name[i] \in {"Collector", "Collectors"}

\* A plausible slip: only the IT collector of the student is matched.
CollectorMatchItOnly(name, student_name) ==
    name = student_name \o <<"-", "IT", "-", "Collector">>

\* if name.startswith(f"{student_name}-") and "Collector" in name
CollectorMatch(name, student_name) ==
    /\ StartsWith(name, student_name \o <<"-">>)
    /\ ContainsCollector(name)

InitTeardown ==
    /\ DeployIdle /\ ProjectIdleBut("t")
    /\ tNodes \in {S \in SUBSET TeardownNodeNames :
                      Cardinality(S) <= MaxTeardownNodes}
    /\ tSessions \in SUBSET Students
    /\ tSubmissions \in {{}, Students}
    /\ tStudent \in Students
    /\ tPc = "idle"
    /\ tListed = {}
    /\ tRemaining = {}
    /\ tAttempted = {}
    /\ tRefused = {}
    /\ tDeleted = {}
    /\ tStatus = ""

\* teardown_logging: 404 when the student has no session
TeardownStart ==
    /\ tPc = "idle"
    /\ IF tStudent \in tSessions
       THEN tPc' = "listing" /\ UNCHANGED tStatus
       ELSE tPc' = "failed" /\ tStatus' = "404"
    /\ UNCHANGED <<tNodes, tSessions, tSubmissions, tStudent, tListed,
                   tRemaining, tAttempted, tRefused, tDeleted, notT>>

\* delete_collector_nodes: nodes = self.client.list_nodes(...); an exception
\* of the listing is not caught anywhere and ends the request.
TeardownList ==
    /\ tPc = "listing"
    /\ \E outcome \in {"ok", "error"} :
         IF outcome = "ok"
         THEN /\ tListed' = tNodes
              /\ tRemaining' = tNodes
              /\ tPc' = IF tNodes = {} THEN "returned" ELSE "visiting"
              /\ UNCHANGED tStatus
         ELSE /\ tPc' = "failed"
              /\ tStatus' = "500"
              /\ UNCHANGED <<tListed, tRemaining>>
    /\ UNCHANGED <<tNodes, tSessions, tSubmissions, tStudent, tAttempted,
                   tRefused, tDeleted, notT>>

\* One turn of the loop.  delete_node returns True, or False for an error
\* status (the name is appended all the same); an exception is logged.
TeardownVisit ==
    /\ tPc = "visiting"
    /\ \E name \in tRemaining :
         /\ tRemaining' = tRemaining \ {name}
         /\ tPc' = IF tRemaining = {name} THEN "returned" ELSE "visiting"
         /\ IF CollectorMatch(name, tStudent)
            THEN /\ tAttempted' = tAttempted \cup {name}
                 /\ \E outcome \in {"ok", "api_error", "transport_error"} :
                      /\ tNodes' = IF outcome = "ok" THEN tNodes \ {name}
                                   ELSE tNodes
                      /\ tRefused' = IF outcome = "ok" THEN tRefused
                                     ELSE tRefused \cup {name}
                      /\ tDeleted' = IF outcome = "transport_error"
                                     THEN tDeleted
                                     ELSE tDeleted \cup {name}
            ELSE UNCHANGED <<tNodes, tAttempted, tRefused, tDeleted>>
    /\ UNCHANGED <<tSessions, tSubmissions, tStudent, tListed, tStatus, notT>>

\* teardown_logging after teardown_logging_for_student has returned:
\* student_repo.delete(sanitized_name) and the response.
TeardownDeleteSession ==
    /\ tPc = "returned"
    /\ tSessions' = tSessions \ {tStudent}
    /\ tStatus' = "200"
    /\ tPc' = "responded"
    /\ UNCHANGED <<tNodes, tSubmissions, tStudent, tListed, tRemaining,
                   tAttempted, tRefused, tDeleted, notT>>

NextTeardown ==
    \/ TeardownStart
    \/ TeardownList
    \/ TeardownVisit
    \/ TeardownDeleteSession

SpecTeardown == InitTeardown /\ [][NextTeardown]_vars

----------------------------------------------------------------------------
(* Claims about the teardown (SpecTeardown).                                *)

\* The name has the shape <student>-*-Collector.
MatchesCollectorPattern(name, student_name) ==
    /\ Len(name) >= Len(student_name) + 3
    /\ SubSeq(name, 1, Len(student_name) + 1) = student_name \o <<"-">>
    /\ SubSeq(name, Len(name) - 1, Len(name)) = <<"-", "Collector">>

\* C19: when teardown_logging_for_student has returned, a deletion was
\* requested for every listed node named <student>-*-Collector, and those
\* the simulator did not refuse are gone from the project; the steps of the
\* teardown never change the submissions, and change the stored sessions
\* only in the caller's own delete that follows the return.
C19_TeardownDeletesCollectors ==
    /\ [](tPc \in {"returned", "responded"}
            => \A name \in tListed :
                 MatchesCollectorPattern(name, tStudent)
                   => /\ name \in tAttempted
                      /\ name \notin tRefused => name \notin tNodes)
    /\ [][/\ tSubmissions' = tSubmissions
          /\ tPc' # "responded" => tSessions' = tSessions]_vars

\* The teardown has returned after deleting the two collectors of a student
\* who has a session and submissions, and the session is still stored.
C19_Witness ==
    /\ tPc = "returned"
    /\ Cardinality({name \in tListed :
                      MatchesCollectorPattern(name, tStudent)}) = 2
    /\ tListed \cap tNodes = {}
    /\ tStudent \in tSessions
    /\ tStudent \in tSubmissions

----------------------------------------------------------------------------
(***************************************************************************)
(* retrieve_all_logs (core/log_collector.py).  A collector is named        *)
(* <student>-<role>-Collector, a sequence of words and "-" separators; a   *)
(* log content is <<>> (the empty string) or the text of a capture file.   *)
(***************************************************************************)

\* Most collectors of a session.
MaxSnitches == 2

HarvestStudents == {<<"ann">>, <<"smith">>, <<"scott">>}

CollectorRoles == {"IT", "OT", "DMZ"}

\* The name setup_logging_for_student gave the collector of this role.
SnitchName(student_name, role) == student_name \o <<"-", role, "-", "Collector">>

\* "IT" in word.upper(), for the words of the collector names
WordHasIT(word) == word \in {"IT", "smith"}

\* "OT" in word.upper(), for the words of the collector names
WordHasOT(word) == word \in {"OT", "scott"}

\* str.lower() on the words of the collector names
LowerWord(word) ==
    CASE word = "IT" -> "it"
      [] word = "OT" -> "ot"
      [] word = "DMZ" -> "dmz"
      [] word = "Collector" -> "collector"
      [] OTHER -> word

\* collector_type = "it" if "IT" in snitch.name.upper()
\*                  else "ot" if "OT" in snitch.name.upper()
\*                  else snitch.name.lower()
CollectorType(name) ==
    IF \E i \in DOMAIN name : WordHasIT(name[i]) THEN <<"it">>
    ELSE IF \E i \in DOMAIN name : WordHasOT(name[i]) THEN <<"ot">>
    ELSE [i \in DOMAIN name |-> LowerWord(name[i])]

\* The text of the capture file of the collector of this role.
CaptureText(role) == <<"commands seen by", role>>

\* retrieve_single: (collector_type, logs, error)
RetrieveSingle(name, role, capture) ==
    [collector_type |-> CollectorType(name),
     log_content |-> IF capture = "text" THEN CaptureText(role) ELSE <<>>,
     error |-> CASE capture = "text" -> None
                 [] capture = "empty" -> Some([about |-> name,
                                               text |-> "Log file is empty"])
                 [] OTHER -> Some([about |-> name,
                                   text |-> "Failed to retrieve logs"])]

RECURSIVE MergeLogs(_, _)
\* for result in results: logs[collector_type] = log_content
MergeLogs(results, logs) ==
    IF results = <<>> THEN logs
    ELSE LET r == Head(results)[1]
             k == r.collector_type
         IN  MergeLogs(Tail(results),
                       [x \in DOMAIN logs \cup {k} |->
                           IF x = k THEN r.log_content ELSE logs[x]])

\* for result in results: if error: errors.append(error)
MergeErrors(results) ==
    LET failed == SelectSeq(results, LAMBDA r : r[1].error # None)
    IN  [i \in DOMAIN failed |-> failed[i][1].error[1]]

\* The collector lists a session can hold: distinct roles.
SnitchLists ==
    {s \in SeqsUpTo(CollectorRoles, MaxSnitches) :
        \A i, j \in DOMAIN s : s[i] = s[j] => i = j}

InitHarvest ==
    /\ DeployIdle /\ ProjectIdleBut("h")
    /\ hStudent \in HarvestStudents
    /\ hSnitches \in SnitchLists
    /\ hCapture \in [DOMAIN hSnitches -> {"text", "empty", "unreachable"}]
    /\ hResults = [i \in DOMAIN hSnitches |-> None]
    /\ hPc = "running"
    /\ hLogs = <<>>
    /\ hErrors = <<>>

\* One retrieve_single task runs to its end; the tasks of the gather end
\* in any order.
HarvestRetrieve(i) ==
    /\ hPc = "running"
    /\ i \in DOMAIN hSnitches
    /\ hResults[i] = None
    /\ hResults' = [hResults EXCEPT ![i] =
                       Some(RetrieveSingle(SnitchName(hStudent, hSnitches[i]),
                                           hSnitches[i], hCapture[i]))]
    /\ UNCHANGED <<hStudent, hSnitches, hCapture, hPc, hLogs, hErrors, notH>>

\* After the gather: the results are merged in the order of snitch_nodes.
HarvestReturn ==
    /\ hPc = "running"
    /\ \A i \in DOMAIN hSnitches : hResults[i] # None
    /\ hLogs' = MergeLogs(hResults, <<>>)
    /\ hErrors' = MergeErrors(hResults)
    /\ hPc' = "returned"
    /\ UNCHANGED <<hStudent, hSnitches, hCapture, hResults, notH>>

NextHarvest ==
    \/ \E i \in 1..MaxSnitches : HarvestRetrieve(i)
    \/ HarvestReturn

SpecHarvest == InitHarvest /\ [][NextHarvest]_vars

----------------------------------------------------------------------------
(* Claims about retrieve_all_logs (SpecHarvest).                            *)

\* C20 as stated: when retrieve_all_logs has returned, every collector whose
\* capture file was empty has the empty string as a returned log and a warning
\* naming it in the error list, and the text of every other collector that
\* was read is among the returned logs.
C20_AsStated ==
    hPc = "returned" =>
        \A i \in DOMAIN hSnitches :
            hCapture[i] = "empty" =>
                /\ \E k \in DOMAIN hLogs : hLogs[k] = <<>>
                /\ \E e \in DOMAIN hErrors :
                     hErrors[e] = [about |-> SnitchName(hStudent, hSnitches[i]),
                                   text |-> "Log file is empty"]
                /\ \A j \in DOMAIN hSnitches :
                     hCapture[j] = "text" =>
                         \E k \in DOMAIN hLogs :
                             hLogs[k] = CaptureText(hSnitches[j])

----------------------------------------------------------------------------
(***************************************************************************)
(* The three gathers of core/log_collector.py: setup_collectors,           *)
(* inject_prompt_command and retrieve_all_logs.  The coroutines of one     *)
(* gather are alike, so they are counted by where they stand.  gather      *)
(* starts every coroutine at once; a coroutine of inject_prompt_command    *)
(* first waits for the semaphore.                                          *)
(***************************************************************************)

\* Most coroutines of one gather.
MaxFanoutTasks == 9

\* semaphore = asyncio.Semaphore(8)
INJECT_CONCURRENCY == 8

FanoutKinds == {"collectors", "inject", "harvest"}

\* A plausible slip: the gather runs without a semaphore.
FanoutLimitNone(kind) == None

\* The semaphore the fan-out creates, None when it creates none.
FanoutLimit(kind) ==
    IF kind = "inject" THEN Some(INJECT_CONCURRENCY) ELSE None

\* A coroutine of this fan-out opens sessions one after another:
\* _get_node_ip_address then _ensure_syslog_running (collectors),
\* _ensure_syslog_running then the cat of the log (harvest).
OpensTwice(kind) == kind \in {"collectors", "harvest"}

InitFanout ==
    /\ DeployIdle /\ ProjectIdleBut("f")
    /\ fKind \in FanoutKinds
    /\ fTasks \in 0..MaxFanoutTasks
    /\ fWaiting = (IF FanoutLimit(fKind) = None THEN 0 ELSE fTasks)
    /\ fActive = (IF FanoutLimit(fKind) = None THEN fTasks ELSE 0)
    /\ fOpen = 0
    /\ fBetween = 0
    /\ fAgain = 0
    /\ fDone = 0

\* The coroutines that hold the semaphore.
FanoutHolders == fActive + fOpen + fBetween + fAgain

\* async with semaphore
FanoutAcquire ==
    /\ fWaiting > 0
    /\ FanoutLimit(fKind) # None
    /\ FanoutHolders < FanoutLimit(fKind)[1]
    /\ fWaiting' = fWaiting - 1
    /\ fActive' = fActive + 1
    /\ UNCHANGED <<fKind, fTasks, fOpen, fBetween, fAgain, fDone, notF>>

\* async with TelnetConsole(settings) as console
FanoutOpenConsole ==
    /\ fActive > 0
    /\ fActive' = fActive - 1
    /\ fOpen' = fOpen + 1
    /\ UNCHANGED <<fKind, fTasks, fWaiting, fBetween, fAgain, fDone, notF>>

\* The first session is closed and the coroutine goes on.
FanoutCloseConsole ==
    /\ fOpen > 0
    /\ OpensTwice(fKind)
    /\ fOpen' = fOpen - 1
    /\ fBetween' = fBetween + 1
    /\ UNCHANGED <<fKind, fTasks, fWaiting, fActive, fAgain, fDone, notF>>

\* The second session of the coroutine.
FanoutOpenAgain ==
    /\ fBetween > 0
    /\ fBetween' = fBetween - 1
    /\ fAgain' = fAgain + 1
    /\ UNCHANGED <<fKind, fTasks, fWaiting, fActive, fOpen, fDone, notF>>

\* The coroutine returns, with its session closed (and the semaphore
\* released) or without having opened one (no console, an exception).
FanoutTaskReturn ==
    /\ \/ fActive > 0 /\ fActive' = fActive - 1
          /\ UNCHANGED <<fOpen, fBetween, fAgain>>
       \/ fOpen > 0 /\ fOpen' = fOpen - 1
          /\ UNCHANGED <<fActive, fBetween, fAgain>>
       \/ fBetween > 0 /\ fBetween' = fBetween - 1
          /\ UNCHANGED <<fActive, fOpen, fAgain>>
       \/ fAgain > 0 /\ fAgain' = fAgain - 1
          /\ UNCHANGED <<fActive, fOpen, fBetween>>
    /\ fDone' = fDone + 1
    /\ UNCHANGED <<fKind, fTasks, fWaiting, notF>>

NextFanout ==
    \/ FanoutAcquire
    \/ FanoutOpenConsole
    \/ FanoutCloseConsole
    \/ FanoutOpenAgain
    \/ FanoutTaskReturn

SpecFanout == InitFanout /\ [][NextFanout]_vars

----------------------------------------------------------------------------
(* Claims about the fan-outs (SpecFanout).                                  *)

----------------------------------------------------------------------------
(***************************************************************************)
(* resolve_endpoint and ScenarioBuilder._create_links                      *)
(* (core/scenario_builder.py) applied to one link spec, after the node     *)
(* loop of build has filled name_to_id and alias_to_id.                    *)
(***************************************************************************)

\* Most created nodes.
MaxLinkNodes == 2

\* The node names that are enumerated; two of them begin with the alias
\* prefix, in lower and in upper case.
LinkNodeNames ==
    {<<"fw">>, <<"FW">>, <<"firewall">>, <<"node_", "fw">>, <<"NODE_", "FW">>}

\* name_to_id[name] = node_id, for every created node in turn
NameToIdOf(names) ==
    [n \in {names[i] : i \in DOMAIN names} |->
        NodeId(SetMax({i \in DOMAIN names : names[i] = n}))]

RECURSIVE AliasToIdOf(_, _)
\* alias_to_id.setdefault(alias, node_id), for the first k created nodes
AliasToIdOf(names, k) ==
    IF k = 0 THEN <<>>
    ELSE AliasesSetDefault(AliasToIdOf(names, k - 1), names[k], NodeId(k))

\* The references an endpoint of the link spec can carry.
EndpointRefs ==
    {eNames[i] : i \in DOMAIN eNames}
        \cup UNION {AliasVariants(eNames[i]) : i \in DOMAIN eNames}
        \cup {<<"NODE_", "PLC">>, <<"u-u-u-u-u">>, <<"plc">>,
              <<"NODE_", "u-u-u-u-u">>}

Endpoints == [ref : EndpointRefs, adapter_number : {0, 1}, port_number : {0, 1}]

\* The calls of resolve_endpoint for a link spec, in order: b_ref is not
\* resolved when a_ref raised.
ResolveCalls(link, name_to_id, alias_to_id) ==
    IF ResolveEndpoint(link[1].ref, name_to_id, alias_to_id) = None
    THEN <<None>>
    ELSE <<ResolveEndpoint(link[1].ref, name_to_id, alias_to_id),
           ResolveEndpoint(link[2].ref, name_to_id, alias_to_id)>>

\* A plausible slip: node_b takes its adapter and port from a_in.
LinkPayloadPortsOfFirst(link, name_to_id, alias_to_id) ==
    LET calls == ResolveCalls(link, name_to_id, alias_to_id)
    IN  IF \E k \in DOMAIN calls : calls[k] = None THEN None
        ELSE Some(<<[node_id |-> calls[1][1],
                     adapter_number |-> link[1].adapter_number,
                     port_number |-> link[1].port_number],
                    [node_id |-> calls[2][1],
                     adapter_number |-> link[1].adapter_number,
                     port_number |-> link[1].port_number]>>)

\* _create_links for one link spec: the nodes of the payload create_link
\* posts, None when resolve_endpoint raised.
LinkPayload(link, name_to_id, alias_to_id) ==
    LET calls == ResolveCalls(link, name_to_id, alias_to_id)
    IN  IF \E k \in DOMAIN calls : calls[k] = None THEN None
        ELSE Some(<<[node_id |-> calls[1][1],
                     adapter_number |-> link[1].adapter_number,
                     port_number |-> link[1].port_number],
                    [node_id |-> calls[2][1],
                     adapter_number |-> link[2].adapter_number,
                     port_number |-> link[2].port_number]>>)

InitLink ==
    /\ DeployIdle /\ ProjectIdleBut("e")
    /\ eNames \in SeqsUpTo(LinkNodeNames, MaxLinkNodes)
    /\ eNames # <<>>
    /\ \A i, j \in DOMAIN eNames : eNames[i] = eNames[j] => i = j
    /\ eNameToId = NameToIdOf(eNames)
    /\ eAliasToId = AliasToIdOf(eNames, Len(eNames))
    /\ eLink = None
    /\ eResolved = <<>>
    /\ eSent = None
    /\ eSwapped = None
    /\ ePc = "ready"

\* _create_links on a link spec {A, B}
LinkCreate ==
    /\ ePc = "ready"
    /\ \E a_in, b_in \in Endpoints :
         /\ eLink' = Some(<<a_in, b_in>>)
         /\ eResolved' = ResolveCalls(<<a_in, b_in>>, eNameToId, eAliasToId)
         /\ eSent' = LinkPayload(<<a_in, b_in>>, eNameToId, eAliasToId)
    /\ ePc' = "built"
    /\ UNCHANGED <<eNames, eNameToId, eAliasToId, eSwapped, notE>>

\* _create_links on the same link spec written {B, A}
LinkCreateSwapped ==
    /\ ePc = "built"
    /\ eSwapped' = LinkPayload(<<eLink[1][2], eLink[1][1]>>,
                               eNameToId, eAliasToId)
    /\ ePc' = "both"
    /\ UNCHANGED <<eNames, eNameToId, eAliasToId, eLink, eResolved, eSent,
                   notE>>

NextLink ==
    \/ LinkCreate
    \/ LinkCreateSwapped

SpecLink == InitLink /\ [][NextLink]_vars

----------------------------------------------------------------------------
(* Claims about link resolution (SpecLink).                                 *)

\* C22: a link spec and the same spec with its endpoints swapped either
\* both fail to resolve, or send the simulator the same unordered pair of
\* (node_id, adapter_number, port_number) endpoints.
C22_LinkCommutes ==
    ePc = "both" =>
        /\ eSent = None <=> eSwapped = None
        /\ eSent # None =>
             {eSent[1][1], eSent[1][2]} = {eSwapped[1][1], eSwapped[1][2]}

\* Both orders were posted for a link between two different nodes with
\* different adapters.
C22_Witness ==
    /\ ePc = "both"
    /\ eSent # None /\ eSwapped # None
    /\ eSent[1][1].node_id # eSent[1][2].node_id
    /\ eSent[1][1].adapter_number # eSent[1][2].adapter_number
    /\ eSwapped[1] = <<eSent[1][2], eSent[1][1]>>

----------------------------------------------------------------------------
(* Further claims about ScriptPusher.push (SpecPush).                       *)

\* push has returned a result.
PushReturned == pPc \in {"returned", "summarised"} /\ pResult # None

\* C23: when push has returned, a decode or chmod whose exit code was
\* unknown (None) left an upload result with success = false, and an
\* execution whose exit code is unknown has success = false.
C23_UnknownIsNeverSuccess ==
    PushReturned =>
        /\ ("decode" \in pSent /\ pLocal.decode_exit = None)
             => ~pResult[1].upload.success
        /\ ("chmod" \in pSent /\ pLocal.chmod_exit = None)
             => ~pResult[1].upload.success
        /\ (pResult[1].execution # None
              /\ pResult[1].execution[1].exit_code = None)
             => ~pResult[1].execution[1].success

\* The upload succeeded and the execution ended with an unknown exit code.
C23_Witness ==
    /\ PushReturned
    /\ pResult[1].upload.success
    /\ pResult[1].execution # None
    /\ pResult[1].execution[1].exit_code = None
    /\ ~pResult[1].execution[1].success

\* C24: when push has returned without a transport fault: a decode that did
\* not exit 0 gives reason decode_failed, and then neither chmod nor the
\* script was sent; otherwise a chmod that did not exit 0 gives reason
\* chmod_failed, and then the script was not sent; and in every returned
\* result an execution result is present exactly when the upload result is
\* a success and run_after_upload is set.
C24_ShortCircuit ==
    PushReturned =>
        /\ ("rm" \in pSent /\ pLocal.decode_exit # Some(0) /\ ~pLocal.fault)
             => /\ pResult[1].upload.reason = "decode_failed"
                /\ pSent \cap {"chmod", "exec"} = {}
        /\ ("chmod" \in pSent /\ pLocal.chmod_exit # Some(0) /\ ~pLocal.fault)
             => /\ pResult[1].upload.reason = "chmod_failed"
                /\ "exec" \notin pSent
        /\ pResult[1].upload.reason = "decode_failed"
             => pLocal.decode_exit # Some(0)
        /\ pResult[1].upload.reason = "chmod_failed"
             => pLocal.chmod_exit # Some(0)
        /\ pResult[1].execution # None
             <=> (pResult[1].upload.success /\ pSpec.run_after_upload)

\* An upload without a requested run succeeded, so no execution result.
C24_Witness ==
    /\ PushReturned
    /\ pResult[1].upload.success
    /\ ~pSpec.run_after_upload
    /\ pSpec.executable
    /\ pResult[1].execution = None

----------------------------------------------------------------------------
(* Claims about resolve_endpoint (SpecLink).                                *)

\* The resolution the stated order gives: an alias-prefixed token that is a
\* known alias; failing that an exact node name; failing that an id-shaped
\* string as it is; None when none of the three applies.
StatedResolution(ref) ==
    IF HasAliasPrefix(ref) /\ ref \in DOMAIN eAliasToId
    THEN Some(eAliasToId[ref])
    ELSE IF ref \in DOMAIN eNameToId THEN Some(eNameToId[ref])
    ELSE IF CountHyphens(ref) >= 4 THEN Some(ref)
    ELSE None

\* C25 as stated: every call of resolve_endpoint made for the link spec
\* returned what the stated order gives, and an endpoint that is the exact
\* name of a created node resolved to that node's id.
C25_AsStated ==
    eLink # None =>
        \A k \in DOMAIN eResolved :
            /\ eResolved[k] = StatedResolution(eLink[1][k].ref)
            /\ eLink[1][k].ref \in DOMAIN eNameToId
                 => eResolved[k] = Some(eNameToId[eLink[1][k].ref])

----------------------------------------------------------------------------
(***************************************************************************)
(* LogCollector._find_available_port and _connect_to_switch                *)
(* (core/log_collector.py): the collectors are connected one after the     *)
(* other (no await between the scan and create_link).                      *)
(***************************************************************************)

\* Most adapters of the switch that are in use, or free, at the start.
MaxSwitchLinks == 2

\* Most collectors that are connected to the switch.
MaxConnects == 2

\* for adapter_num in range(15, 0, -1): the first adapter scanned
LAST_ADAPTER == 15

\* used_adapters: the adapter numbers of the endpoints on this node
UsedAdapters(links, node_id) ==
    {e.adapter_number : e \in {x \in links : x.node = node_id}}

RECURSIVE ScanDownTo(_, _, _)
\* The first adapter from n down to lowest that is not in used, or None.
ScanDownTo(n, lowest, used) ==
    IF n < lowest THEN None
    ELSE IF n \notin used THEN Some(n)
    ELSE ScanDownTo(n - 1, lowest, used)

\* A plausible slip: the scan does not look at the links and takes the
\* highest adapter.
FindAvailablePortBlind(links, node_id) == Some(LAST_ADAPTER)

\* A plausible slip: range(15, -1, -1), adapter 0 is scanned too.
FindAvailablePortWithZero(links, node_id) ==
    ScanDownTo(LAST_ADAPTER, 0, UsedAdapters(links, node_id))

\* _find_available_port: Some(adapter), or None for the RuntimeError
FindAvailablePort(links, node_id) ==
    ScanDownTo(LAST_ADAPTER, 1, UsedAdapters(links, node_id))

\* The adapters of the switch in use when the first collector arrives: few
\* in use, or few free.
SwitchUsage ==
    {U \in SUBSET (0..LAST_ADAPTER) : Cardinality(U) <= MaxSwitchLinks}
        \cup {(0..LAST_ADAPTER) \ F :
                 F \in {G \in SUBSET (0..LAST_ADAPTER) :
                           Cardinality(G) <= MaxSwitchLinks}}

InitPort ==
    /\ DeployIdle /\ ProjectIdleBut("a")
    /\ \E U \in SwitchUsage, O \in {{}, {LAST_ADAPTER}} :
         aLinks = [node : {"switch"}, adapter_number : U]
                    \cup [node : {"other"}, adapter_number : O]
    /\ aChosen = <<>>
    /\ aCreated = <<>>

\* The node of the k-th collector that is connected.
CollectorNode(k) == "collector" \o ToString(k)

\* _connect_to_switch: the scan, then create_link; any exception (no free
\* adapter, a failed request) is logged and False is returned.
ConnectToSwitch ==
    /\ Len(aChosen) < MaxConnects
    /\ LET found == FindAvailablePort(aLinks, "switch")
       IN  /\ aChosen' = Append(aChosen, found)
           /\ \E accepted \in BOOLEAN :
                IF found # None /\ accepted
                THEN /\ aLinks' = aLinks
                          \cup {[node |-> "switch", adapter_number |-> found[1]],
                                [node |-> CollectorNode(Len(aChosen) + 1),
                                 adapter_number |-> 0]}
                     /\ aCreated' = Append(aCreated, TRUE)
                ELSE /\ UNCHANGED aLinks
                     /\ aCreated' = Append(aCreated, FALSE)
    /\ UNCHANGED notA

NextPort == ConnectToSwitch

SpecPort == InitPort /\ [][NextPort]_vars

----------------------------------------------------------------------------
(* Claims about the adapter choice (SpecPort).                              *)

\* The adapters of the switch that links use in this state.
SwitchAdaptersInUse ==
    {e.adapter_number : e \in {x \in aLinks : x.node = "switch"}}

\* C26: in every call of _connect_to_switch the adapter chosen is the
\* highest of 15..1 that no link of the switch uses (so never adapter 0 and
\* never one in use); when adapters 1..15 are all in use nothing is chosen
\* and no link is created, and a created link uses the chosen adapter.
C26_HighestFreeAdapter ==
    [][Len(aChosen') = Len(aChosen) + 1 =>
        LET chosen == aChosen'[Len(aChosen')]
        IN  /\ chosen # None =>
                 /\ chosen[1] \in 1..15
                 /\ chosen[1] \notin SwitchAdaptersInUse
                 /\ \A b \in (chosen[1] + 1)..15 : b \in SwitchAdaptersInUse
            /\ chosen = None =>
                 /\ \A b \in 1..15 : b \in SwitchAdaptersInUse
                 /\ aLinks' = aLinks
                 /\ ~aCreated'[Len(aCreated')]
            /\ aLinks' # aLinks =>
                 aLinks' \ aLinks
                   = {[node |-> "switch", adapter_number |-> chosen[1]],
                      [node |-> CollectorNode(Len(aChosen')),
                       adapter_number |-> 0]}]_vars

\* Two collectors were connected to a switch whose only free adapters were
\* 0 and one other: the second found adapters 1..15 all in use.
C26_Witness ==
    /\ Len(aChosen) = 2
    /\ aChosen[1] # None /\ aChosen[1][1] < 15
    /\ aCreated[1]
    /\ aChosen[2] = None
    /\ 0 \notin SwitchAdaptersInUse

----------------------------------------------------------------------------
(* Claims about the inter-stage delay (SpecSched).                          *)

\* The tasks of the groups numbered in ks.
TasksOfGroups(ks) ==
    {t \in SchedTasks : \E g \in ks \cap (1..Len(sGroups)) :
                           \E k \in 1..Len(sGroups[g]) : sGroups[g][k] = t}

\* C27: with a positive priority_delay and G groups the scheduler has slept
\* exactly G-1 times when it returns (never with a delay of zero); every
\* sleep is taken when at least one group has run, all tasks of the groups
\* before it are done and no task of the groups after it has started.
C27_DelayBetweenGroups ==
    /\ [](sPc = "returned" /\ sGroups # <<>> =>
            sSleeps = IF sDelay THEN Len(sGroups) - 1 ELSE 0)
    /\ [][sSleeps' # sSleeps =>
            /\ sSleeps' = sSleeps + 1
            /\ sGi >= 1
            /\ sSleeps' = sGi
            /\ \A t \in TasksOfGroups(1..sGi) : sTaskPc[t] = "done"
            /\ \A t \in TasksOfGroups((sGi + 1)..Len(sGroups)) :
                  /\ sTaskPc[t] = "idle"
                  /\ sTaskPc'[t] \in {"idle", "created"}
                  /\ t \notin sOpened']_vars

\* The scheduler returned after two groups with one delay between them.
C27_Witness ==
    /\ sPc = "returned"
    /\ sDelay
    /\ Len(sGroups) = 2
    /\ sSleeps = 1
    /\ \A t \in SchedTasks : sTaskPc[t] = "done"

----------------------------------------------------------------------------
(***************************************************************************)
(* LogCollector.inject_prompt_command with _get_eligible_nodes and         *)
(* _determine_collector_ip (core/log_collector.py).                        *)
(***************************************************************************)

\* Most nodes in the project that is instrumented.
MaxInjectNodes == 2

\* The names of the project's nodes besides the student's collectors.
InjectNodeNames == {<<"web">>, <<"OT", "-", "PLC">>, <<"IT", "-", "Switch">>}

\* The collectors that setup_collectors returned: IT before OT, a role is
\* missing when its setup failed (with none, instrumentation is not called).
InjectSnitchLists == {<<"IT">>, <<"OT">>, <<"IT", "OT">>}

\* "OT" in name.upper(), "IT" in name.upper()
NameHasOT(name) == \E i \in DOMAIN name : WordHasOT(name[i])

NameHasIT(name) == \E i \in DOMAIN name : WordHasIT(name[i])

\* "Switch" in name or "Collector" in name
IsInfrastructure(name) ==
    \E i \in DOMAIN name : name[i] \in {"Switch", "Collector"}

\* A plausible slip: no node is taken for infrastructure.
EligibleAnyName(node) == node.console_type = "telnet"

\* _get_eligible_nodes: telnet nodes that are not infrastructure
Eligible(node) ==
    node.console_type = "telnet" /\ ~IsInfrastructure(node.name)

\* The entry _get_eligible_nodes adds to skipped for a node it filters out.
SkippedEntry(node) ==
    [name |-> node.name,
     note |-> IF node.console_type # "telnet" THEN "console_type"
              ELSE "infrastructure node"]

\* _determine_collector_ip: the index of the snitch whose address is
\* returned, None for the ValueError.
DetermineCollector(node_name, student_name, snitches) ==
    LET ot == {k \in DOMAIN snitches :
                  NameHasOT(SnitchName(student_name, snitches[k]))}
        it == {k \in DOMAIN snitches :
                  NameHasIT(SnitchName(student_name, snitches[k]))}
    IN  IF snitches = <<>> THEN None
        ELSE IF NameHasOT(node_name) /\ ot # {} THEN Some(SetMin(ot))
        ELSE IF it # {} THEN Some(SetMin(it))
        ELSE Some(1)

\* The name part and the error part of inject_single_node's result.
InjectResult(node_name, error) == [node_name |-> node_name, error |-> error]

InjectNodes == DOMAIN jNodes

InitInject ==
    /\ DeployIdle /\ ProjectIdleBut("j")
    /\ jStudent \in HarvestStudents
    /\ jSnitches \in InjectSnitchLists
    /\ jNodes \in SeqsUpTo(
          [name : InjectNodeNames
                    \cup {SnitchName(jStudent, role) : role \in {"IT", "OT"}},
           console_type : {"telnet", "vnc"},
           console : BOOLEAN],
          MaxInjectNodes)
    \* the simulator keeps node names unique; only telnet consoles resolve
    /\ \A i, k \in DOMAIN jNodes : i # k => jNodes[i].name # jNodes[k].name
    /\ \A i \in DOMAIN jNodes :
          jNodes[i].console => jNodes[i].console_type = "telnet"
    /\ jPc = "start"
    /\ jTaskPc = [i \in DOMAIN jNodes |-> "none"]
    /\ jHeld = 0
    /\ jAttempts = [i \in DOMAIN jNodes |-> 0]
    /\ jConsole = {}
    /\ jTarget = [i \in DOMAIN jNodes |-> None]
    /\ jResult = [i \in DOMAIN jNodes |-> None]
    /\ jInjected = <<>>
    /\ jSkipped = <<>>
    /\ jErrors = <<>>

\* _get_eligible_nodes, then one coroutine per eligible node for gather.
InjectStart ==
    /\ jPc = "start"
    /\ jSkipped' = [k \in 1..Cardinality({i \in InjectNodes : ~Eligible(jNodes[i])})
                       |-> SkippedEntry(jNodes[
                              CHOOSE i \in InjectNodes :
                                 /\ ~Eligible(jNodes[i])
                                 /\ Cardinality({m \in 1..i : ~Eligible(jNodes[m])}) = k])]
    /\ jTaskPc' = [i \in InjectNodes |->
                     IF Eligible(jNodes[i]) THEN "created" ELSE "none"]
    /\ jPc' = "gather"
    /\ UNCHANGED <<jStudent, jSnitches, jNodes, jHeld, jAttempts, jConsole,
                   jTarget, jResult, jInjected, jErrors, notJ>>

\* inject_single_node up to its first await: the permit, the console target,
\* the collector; without a console target or a collector it returns.
InjectEnter(i) ==
    /\ i \in InjectNodes
    /\ jPc = "gather"
    /\ jTaskPc[i] = "created"
    /\ jHeld < INJECT_CONCURRENCY
    /\ jAttempts' = [jAttempts EXCEPT ![i] = @ + 1]
    /\ LET found == DetermineCollector(jNodes[i].name, jStudent, jSnitches)
       IN  IF ~jNodes[i].console
           THEN /\ jResult' = [jResult EXCEPT ![i] =
                                  Some(InjectResult(FALSE, "no console"))]
                /\ jTaskPc' = [jTaskPc EXCEPT ![i] = "done"]
                /\ UNCHANGED <<jHeld, jTarget, jConsole>>
           ELSE IF found = None
           THEN /\ jResult' = [jResult EXCEPT ![i] =
                                  Some(InjectResult(FALSE, "Failed to inject"))]
                /\ jTaskPc' = [jTaskPc EXCEPT ![i] = "done"]
                /\ UNCHANGED <<jHeld, jTarget, jConsole>>
           ELSE /\ jTarget' = [jTarget EXCEPT ![i] = found]
                /\ jConsole' = jConsole \cup {i}
                /\ jHeld' = jHeld + 1
                /\ jTaskPc' = [jTaskPc EXCEPT ![i] = "session"]
                /\ UNCHANGED jResult
    /\ UNCHANGED <<jStudent, jSnitches, jNodes, jPc, jInjected, jSkipped,
                   jErrors, notJ>>

\* The console session: both commands are sent, or an exception is caught.
InjectSession(i) ==
    /\ i \in InjectNodes
    /\ jTaskPc[i] = "session"
    /\ \E sent \in BOOLEAN :
         jResult' = [jResult EXCEPT ![i] =
            Some(IF sent THEN InjectResult(TRUE, "none")
                 ELSE InjectResult(FALSE, "Failed to inject"))]
    /\ jHeld' = jHeld - 1
    /\ jTaskPc' = [jTaskPc EXCEPT ![i] = "done"]
    /\ UNCHANGED <<jStudent, jSnitches, jNodes, jPc, jAttempts, jConsole,
                   jTarget, jInjected, jSkipped, jErrors, notJ>>

\* The results of gather, in node order, that satisfy keep.
InjectSelect(keep(_)) ==
    LET tasks == SelectSeq([i \in InjectNodes |-> i],
                           LAMBDA i : jResult[i] # None /\ keep(jResult[i][1]))
    IN  [k \in DOMAIN tasks |->
            [name |-> jNodes[tasks[k]].name, note |-> jResult[tasks[k]][1].error]]

\* gather returned: the results are sorted into injected, skipped, errors.
InjectReturn ==
    /\ jPc = "gather"
    /\ \A i \in InjectNodes : jTaskPc[i] \in {"none", "done"}
    /\ jInjected' = InjectSelect(LAMBDA r : r.node_name)
    /\ jSkipped' = jSkipped \o InjectSelect(LAMBDA r : r.error = "no console")
    /\ jErrors' = InjectSelect(LAMBDA r : r.error = "Failed to inject")
    /\ jPc' = "returned"
    /\ UNCHANGED <<jStudent, jSnitches, jNodes, jTaskPc, jHeld, jAttempts,
                   jConsole, jTarget, jResult, notJ>>

NextInject ==
    \/ InjectStart
    \/ \E i \in 1..MaxInjectNodes : InjectEnter(i)
    \/ \E i \in 1..MaxInjectNodes : InjectSession(i)
    \/ InjectReturn

SpecInject == InitInject /\ [][NextInject]_vars

----------------------------------------------------------------------------
(* Claims about instrumentation (SpecInject).                               *)

\* The role of the collector whose address node i was given.
TargetRole(i) == jSnitches[jTarget[i][1]]

ProvisionedRoles == {jSnitches[k] : k \in DOMAIN jSnitches}

\* C28 as stated: a node whose name has the word OT is pointed at the OT
\* collector whenever one was provisioned; any other node is pointed at the
\* IT collector when there is one, else at the first collector.
C28_AsStated ==
    \A i \in InjectNodes :
       jTarget[i] # None =>
          IF \E w \in DOMAIN jNodes[i].name : jNodes[i].name[w] = "OT"
          THEN "OT" \in ProvisionedRoles => TargetRole(i) = "OT"
          ELSE IF "IT" \in ProvisionedRoles THEN TargetRole(i) = "IT"
          ELSE jTarget[i] = Some(1)

\* How often the node named name occurs in a returned list.
CountIn(list, name) == Cardinality({k \in DOMAIN list : list[k].name = name})

\* The node is filtered out before any coroutine is created for it.
FilteredOut(node) ==
    \/ node.console_type # "telnet"
    \/ \E w \in DOMAIN node.name : node.name[w] \in {"Switch", "Collector"}

\* C29: a node that is not telnet-capable or is named as a switch or
\* collector is never attempted and no console session is opened to it, and
\* it is returned in skipped; every other node is attempted exactly once,
\* whatever happened to the others, and is returned in exactly one of
\* injected, skipped and errors.
C29_InjectPartitions ==
    /\ \A i \in InjectNodes :
          /\ jAttempts[i] <= 1
          /\ FilteredOut(jNodes[i]) => jAttempts[i] = 0 /\ i \notin jConsole
    /\ jPc = "returned" =>
          \A i \in InjectNodes :
             /\ ~FilteredOut(jNodes[i]) => jAttempts[i] = 1
             /\ CountIn(jInjected, jNodes[i].name)
                  + CountIn(jSkipped, jNodes[i].name)
                  + CountIn(jErrors, jNodes[i].name) = 1
             /\ FilteredOut(jNodes[i]) => CountIn(jSkipped, jNodes[i].name) = 1

\* Two eligible nodes and a returned call: one injection failed, the other
\* node was injected.
C29_Witness ==
    /\ jPc = "returned"
    /\ Len(jNodes) = 2
    /\ Len(jInjected) = 1
    /\ Len(jErrors) = 1
    /\ jAttempts = <<1, 1>>

----------------------------------------------------------------------------
(* Claims about the service verification (SpecCollect).                     *)

\* C30: one invocation of _ensure_syslog_running starts the daemon at most
\* twice, and a second time only when the daemon was started once and not
\* seen; when the daemon is not confirmed, the role still ends with its
\* collector and the warning as its only error entry, and the collector is
\* in the returned snitch_nodes, so that instrumentation is called.
C30_SyslogBestEffort ==
    \A r \in Roles :
       kSyslog[r] # None =>
          /\ kSyslog[r][1].starts <= 2
          /\ kRolePc[r] = "done"
          /\ ~kSyslog[r][1].running =>
                /\ kRoleResult[r][1].snitch
                /\ kRoleResult[r][1].errors = {"syslog_warning"}
                /\ kPc = "returned" =>
                      /\ r \in kReturn[1].snitch_nodes
                      /\ ReturnedErrorsOf(r) = {<<r, "syslog_warning">>}
                      /\ InstrumentationCalled(kReturn[1])

\* The daemon of the IT collector was started twice and not confirmed; the
\* collector is returned with the warning.
C30_Witness ==
    /\ kPc = "returned"
    /\ kSyslog["IT"] = Some([starts |-> 2, running |-> FALSE])
    /\ "IT" \in kReturn[1].snitch_nodes
    /\ <<"IT", "syslog_warning">> \in kReturn[1].errors

----------------------------------------------------------------------------
(* Claims about address discovery (SpecCollect).                            *)

\* The address is neither loopback (127.) nor link-local (169.254.).
UsableAddress(address) ==
    address[1] # 127 /\ <<address[1], address[2]>> # <<169, 254>>

\* The output that a hostname -I command printed holds a usable address.
ShowsUsable(printed) ==
    printed # None /\ \E i \in DOMAIN printed[1] : UsableAddress(printed[1][i])

\* C31: address discovery queries the addresses once; it runs dhclient, once,
\* only when that query showed no usable address, and queries once more when
\* dhclient returned; an address it returns is usable.  A role whose
\* discovery returned no address ends without a collector, with the no-address
\* error as its entry and without service verification, and the returned
\* result leaves it out of snitch_nodes while the other role is returned as
\* its own provisioning ended.
C31_AddressDiscovery ==
    \A r \in Roles :
       kAddress[r] # None =>
          LET a == kAddress[r][1]
          IN  /\ a.dhcp <= 1
              /\ Len(a.seen) <= a.dhcp + 1
              /\ a.dhcp = 1 => a.seen # <<>> /\ a.seen[1] # None
                                 /\ ~ShowsUsable(a.seen[1])
              /\ (a.seen # <<>> /\ ShowsUsable(a.seen[1])) =>
                    a.dhcp = 0 /\ Len(a.seen) = 1 /\ a.ip # None
              /\ a.ip # None =>
                    /\ UsableAddress(a.ip[1])
                    /\ ShowsUsable(a.seen[Len(a.seen)])
              /\ Len(a.seen) = 2 => (a.ip # None <=> ShowsUsable(a.seen[2]))
              /\ a.ip = None =>
                    /\ kRolePc[r] = "done"
                    /\ ~kRoleResult[r][1].snitch
                    /\ kRoleResult[r][1].errors = {"no_ip"}
                    /\ kSyslog[r] = None
                    /\ kPc = "returned" =>
                          /\ r \notin kReturn[1].snitch_nodes
                          /\ <<r, "no_ip">> \in kReturn[1].errors
                          /\ \A o \in Roles \ {r} :
                                o \in kReturn[1].snitch_nodes
                                   <=> kRoleResult[o][1].snitch

\* The IT collector showed only a link-local address before and after the
\* DHCP request and is left out; the OT collector is returned.
C31_Witness ==
    /\ kPc = "returned"
    /\ kAddress["IT"] # None
    /\ kAddress["IT"][1].dhcp = 1
    /\ kAddress["IT"][1].seen = <<Some(<<<<169, 254>>>>), Some(<<<<169, 254>>>>)>>
    /\ kAddress["IT"][1].ip = None
    /\ kReturn[1].snitch_nodes = {"OT"}

----------------------------------------------------------------------------
(* Claims about the start loop and the detail refetch of build (SpecBuild). *)

\* C32 as stated: with start_nodes set, no start request ends the build,
\* whatever its outcome: after each of them build goes on to the next
\* created node or to the detail refetch, so every created node is attempted.
C32_AsStated ==
    [][bPc = "starting" =>
          /\ bPc' \in {"starting", "details"}
          /\ bPc' = "details" => bStarted' = bCreated]_vars

\* C33: when the link-detail refetch failed, build has returned a result in
\* which links_detail is empty, the config record lists every created node
\* and there is exactly one warning.
C33_RefetchFailureIsWarning ==
    (bRecord # None /\ ~bRecord[1].refetched) =>
        /\ bPc = "built"
        /\ bRecord[1].links = 0
        /\ bRecord[1].nodes = bCreated
        /\ bCreated = Len(bNames)
        /\ bWarnings = 1

\* Two nodes and a link were created, the refetch failed, build returned.
C33_Witness ==
    /\ bPc = "built"
    /\ bRecord # None /\ ~bRecord[1].refetched
    /\ bCreated = 2
    /\ bLinks >= 1
    /\ bWarnings = 1

----------------------------------------------------------------------------
(* Claims about the keys of the harvested logs (SpecHarvest).               *)

\* C34 as stated: when the session holds the IT and the OT collector and
\* both capture files hold text, the harvest returns two entries, the IT
\* collector's text under "it" and the OT collector's text under "ot".
C34_AsStated ==
    (/\ hPc = "returned"
     /\ {hSnitches[i] : i \in DOMAIN hSnitches} = {"IT", "OT"}
     /\ \A i \in DOMAIN hSnitches : hCapture[i] = "text")
        => /\ DOMAIN hLogs = {<<"it">>, <<"ot">>}
           /\ hLogs[<<"it">>] = CaptureText("IT")
           /\ hLogs[<<"ot">>] = CaptureText("OT")

----------------------------------------------------------------------------
(* Claims about the nodes teardown reports and removes (SpecTeardown).      *)

\* C35 as stated: every name in the list that delete_collector_nodes returns
\* (removed_nodes) is a node whose delete request succeeded, so the node is
\* gone from the project.
C35_AsStated ==
    \A name \in tDeleted : name \notin tRefused /\ name \notin tNodes

\* C36 as stated: the teardown of one student requests no deletion of the
\* IT or OT collector of another student.
C36_AsStated ==
    \A other \in Students \ {tStudent} :
       \A role \in {"IT", "OT"} :
          SnitchName(other, role) \notin tAttempted

----------------------------------------------------------------------------
(* Claims about the link of a returned collector (SpecCollect).             *)

\* C37 as stated: every collector that setup_collectors returns in
\* snitch_nodes is linked to its switch.
C37_AsStated ==
    kPc = "returned" => \A r \in kReturn[1].snitch_nodes : kLinked[r]

----------------------------------------------------------------------------
(***************************************************************************)
(* LogCollector._setup_single_collector as coroutines of one event loop    *)
(* (core/log_collector.py): the coroutines of one or of several            *)
(* setup_collectors calls; a coroutine is suspended only at an await.      *)
(***************************************************************************)

\* Most _setup_single_collector coroutines that are alive together.
MaxProvision == 2

\* The collector names and the switches of the coroutines.
ProvisionNames == {"IT", "OT"}

ProvisionSwitches == {"sw1", "sw2"}

\* The links on switch sw1 at the start: its n highest adapters in use, or
\* all of 1..15 but the n lowest in use.
HighestInUse(n) ==
    [i \in 1..n |-> [node |-> "sw1", adapter_number |-> LAST_ADAPTER - i + 1,
                     peer |-> 0]]

AllButLowestInUse(n) ==
    [i \in 1..(LAST_ADAPTER - n) |->
        [node |-> "sw1", adapter_number |-> n + i, peer |-> 0]]

\* _find_node_by_name over the nodes of the project
FindCollectorByName(nodes, name) == \E i \in DOMAIN nodes : nodes[i] = name

InitProvision ==
    /\ DeployIdle /\ ProjectIdleBut("v")
    /\ vTasks \in [1..MaxProvision -> [name : ProvisionNames,
                                       switch : ProvisionSwitches]]
    /\ vNodes \in {<<>>, <<"IT">>}
    /\ \E n \in 0..MaxSwitchLinks :
          vLinks \in {HighestInUse(n), AllButLowestInUse(n)}
    /\ vPc = [c \in 1..MaxProvision |-> "created"]
    /\ vReused = [c \in 1..MaxProvision |-> None]

\* _setup_single_collector up to its first await (asyncio.sleep(3)):
\* _create_collector_node, _connect_to_switch for a new node, get_node and
\* start_node are plain calls.
ProvisionToFirstAwait(c) ==
    /\ vPc[c] = "created"
    /\ IF FindCollectorByName(vNodes, vTasks[c].name)
       THEN /\ vReused' = [vReused EXCEPT ![c] = Some(TRUE)]
            /\ UNCHANGED <<vNodes, vLinks>>
       ELSE /\ vReused' = [vReused EXCEPT ![c] = Some(FALSE)]
            /\ vNodes' = Append(vNodes, vTasks[c].name)
            /\ LET found == FindAvailablePort(
                              {vLinks[i] : i \in DOMAIN vLinks}, vTasks[c].switch)
               IN  \E accepted \in BOOLEAN :
                      IF found # None /\ accepted
                      THEN vLinks' = Append(vLinks,
                              [node |-> vTasks[c].switch,
                               adapter_number |-> found[1],
                               peer |-> Len(vNodes) + 1])
                      ELSE UNCHANGED vLinks
    /\ vPc' = [vPc EXCEPT ![c] = "booting"]
    /\ UNCHANGED <<vTasks, notV>>

\* The rest of the coroutine: address discovery and service verification
\* in console sessions; no node or link is created.
ProvisionRest(c) ==
    /\ vPc[c] = "booting"
    /\ vPc' = [vPc EXCEPT ![c] = "done"]
    /\ UNCHANGED <<vTasks, vNodes, vLinks, vReused, notV>>

NextProvision ==
    \/ \E c \in 1..MaxProvision : ProvisionToFirstAwait(c)
    \/ \E c \in 1..MaxProvision : ProvisionRest(c)

SpecProvision == InitProvision /\ [][NextProvision]_vars

----------------------------------------------------------------------------
(* Claims about concurrent provisioning (SpecProvision).                    *)

\* C38: under every interleaving of the coroutines no two links use the
\* same adapter of the same switch, and no two collector nodes have the same
\* name.
C38_NoSharedAdapterNoTwin ==
    /\ \A i, k \in DOMAIN vLinks :
          (/\ vLinks[i].node = vLinks[k].node
           /\ vLinks[i].adapter_number = vLinks[k].adapter_number) => i = k
    /\ \A i, k \in DOMAIN vNodes : vNodes[i] = vNodes[k] => i = k

\* Two coroutines for different collectors on the same switch are both
\* suspended at their first await, each with its own link.
C38_Witness ==
    /\ vTasks[1].switch = vTasks[2].switch
    /\ vTasks[1].name # vTasks[2].name
    /\ vPc[1] = "booting" /\ vPc[2] = "booting"
    /\ vReused[1] = Some(FALSE) /\ vReused[2] = Some(FALSE)
    /\ \E i, k \in DOMAIN vLinks :
          /\ vLinks[i].peer # 0 /\ vLinks[k].peer # 0
          /\ vLinks[i].peer # vLinks[k].peer
          /\ vLinks[i].node = vLinks[k].node

----------------------------------------------------------------------------
(***************************************************************************)
(* open_console and TelnetConsole.close (core/telnet_client.py) around the *)
(* with blocks of ScriptPusher.push and ScriptPusher.run                   *)
(* (core/script_pusher.py).                                                *)
(***************************************************************************)

\* How the body of the with block can end: the return statements of push,
\* the return of run, or an exception of a console step.
BodyExits(caller) ==
    IF caller = "push"
    THEN {"exists", "decode_failed", "chmod_failed", "uploaded", "executed",
          "exception"}
    ELSE {"executed", "exception"}

\* A plausible slip: close has no try around writer.close().
CloseSwallowsWriteOnly(step) == step = "exit_write"

\* close: both steps run inside try / except Exception: pass
CloseSwallows(step) == step \in {"exit_write", "writer_close"}

InitConsole ==
    /\ DeployIdle /\ ProjectIdleBut("o")
    /\ oCaller \in {"push", "run"}
    /\ oPc = "enter"
    /\ oWriter = "none"
    /\ oWire = "none"
    /\ oExit = None
    /\ oCloses = 0
    /\ oSwallowed = {}
    /\ oResult = None

\* open_console: console.__aenter__() connects or raises (the finally of
\* open_console then runs __aexit__).
ConsoleEnter ==
    /\ oPc = "enter"
    /\ \E connected \in BOOLEAN :
         IF connected
         THEN /\ oWriter' = "set"
              /\ oWire' = "up"
              /\ oPc' = "body"
              /\ UNCHANGED oExit
         ELSE /\ oExit' = Some("connect_failed")
              /\ oPc' = "exit_write"
              /\ UNCHANGED <<oWriter, oWire>>
    /\ UNCHANGED <<oCaller, oCloses, oSwallowed, oResult, notO>>

\* The with block ends; control passes to the finally of open_console.
ConsoleBodyEnds ==
    /\ oPc = "body"
    /\ \E exit \in BodyExits(oCaller) : oExit' = Some(exit)
    /\ oPc' = "exit_write"
    /\ UNCHANGED <<oCaller, oWriter, oWire, oCloses, oSwallowed, oResult, notO>>

\* close: returns at once without a writer; else writes the exit command.
ConsoleCloseExit ==
    /\ oPc = "exit_write"
    /\ IF oWriter = "none"
       THEN /\ oPc' = "leave"
            /\ UNCHANGED <<oCloses, oSwallowed>>
       ELSE /\ oCloses' = oCloses + 1
            /\ \E raises \in BOOLEAN :
                 IF ~raises
                 THEN oPc' = "writer_close" /\ UNCHANGED oSwallowed
                 ELSE IF CloseSwallows("exit_write")
                 THEN /\ oPc' = "writer_close"
                      /\ oSwallowed' = oSwallowed \cup {"exit_write"}
                 ELSE oPc' = "raised" /\ UNCHANGED oSwallowed
    /\ UNCHANGED <<oCaller, oWriter, oWire, oExit, oResult, notO>>

\* close: writer.close() and wait_closed().
ConsoleCloseWriter ==
    /\ oPc = "writer_close"
    /\ \E raises \in BOOLEAN :
         IF ~raises
         THEN /\ oWire' = "down"
              /\ oPc' = "finally"
              /\ UNCHANGED oSwallowed
         ELSE /\ oWire' = "unknown"
              /\ IF CloseSwallows("writer_close")
                 THEN /\ oPc' = "finally"
                      /\ oSwallowed' = oSwallowed \cup {"writer_close"}
                 ELSE /\ oPc' = "raised"
                      /\ UNCHANGED oSwallowed
    /\ UNCHANGED <<oCaller, oWriter, oExit, oCloses, oResult, notO>>

\* close, finally: self._reader = None; self._writer = None
ConsoleCloseFinally ==
    /\ oPc = "finally"
    /\ oWriter' = "none"
    /\ oPc' = "leave"
    /\ UNCHANGED <<oCaller, oWire, oExit, oCloses, oSwallowed, oResult, notO>>

\* open_console is left: push returns its result, or connection_failed from
\* its except Exception; run returns the execution result or lets the
\* exception through.
ConsoleLeave ==
    /\ oPc = "leave"
    /\ IF oExit[1] \in {"exception", "connect_failed"}
       THEN IF oCaller = "push"
            THEN oPc' = "returned" /\ oResult' = Some("connection_failed")
            ELSE oPc' = "raised" /\ UNCHANGED oResult
       ELSE oPc' = "returned" /\ oResult' = oExit
    /\ UNCHANGED <<oCaller, oWriter, oWire, oExit, oCloses, oSwallowed, notO>>

NextConsole ==
    \/ ConsoleEnter
    \/ ConsoleBodyEnds
    \/ ConsoleCloseExit
    \/ ConsoleCloseWriter
    \/ ConsoleCloseFinally
    \/ ConsoleLeave

SpecConsole == InitConsole /\ [][NextConsole]_vars

----------------------------------------------------------------------------
(* Claims about the console session of push and run (SpecConsole).          *)

\* C39: when push or run is over, by return or by exception, the console is
\* released: a session that was opened was closed exactly once, its writer
\* is dropped and, unless writer.close() itself raised, the connection is
\* down; an error inside close never becomes the outcome of the call; after
\* a failed connect no session is open and nothing is closed.
C39_ConsoleClosedOnEveryPath ==
    oPc \in {"returned", "raised"} =>
        /\ oWriter = "none"
        /\ oExit # None
        /\ oExit[1] = "connect_failed" => oWire = "none" /\ oCloses = 0
        /\ oExit[1] # "connect_failed" =>
              /\ oCloses = 1
              /\ oWire \in {"down", "unknown"}
              /\ oWire = "unknown" <=> "writer_close" \in oSwallowed
        /\ oPc = "raised" =>
              oCaller = "run" /\ oExit[1] \in {"exception", "connect_failed"}
        /\ oPc = "returned" =>
              oResult = IF oExit[1] \in {"exception", "connect_failed"}
                        THEN Some("connection_failed") ELSE oExit

\* push returned from the early return for an existing file although both
\* steps of close raised.
C39_Witness ==
    /\ oPc = "returned"
    /\ oCaller = "push"
    /\ oExit = Some("exists")
    /\ oSwallowed = {"exit_write", "writer_close"}
    /\ oWriter = "none"
    /\ oResult = Some("exists")

----------------------------------------------------------------------------
(* Claims about the deploy response (SpecSched).                            *)

\* The failed entries of the result list.
FailedResults == {i \in DOMAIN sResults : ~sResults[i].success}

\* C40: scripts are executed only when run_scripts and start_nodes are both
\* set; when the response is made, its success flag is true exactly when a
\* node was created and every executed script task succeeded, and the errors
\* list holds exactly one entry for each failed task and none for the others.
C40_SuccessFlag ==
    /\ (sOpened # {} \/ sResults # <<>> \/ sPc \in {"next", "gather", "returned"})
          => sFlags.run_scripts /\ sFlags.start_nodes
    /\ sPc = "skipped" => ~(sFlags.run_scripts /\ sFlags.start_nodes)
    /\ sPc \in {"collected", "skipped"} =>
          /\ sSuccess # None
          /\ sSuccess[1] <=> (Cardinality(NodeNames) > 0 /\ FailedResults = {})
          /\ Len(sErrors) = Cardinality(FailedResults)
          /\ \A i \in DOMAIN sResults :
                Cardinality({e \in DOMAIN sErrors :
                                sErrors[e].task = sResults[i].task})
                   = IF sResults[i].success THEN 0 ELSE 1

\* The response after two script tasks of which one failed: one error entry
\* and success false.
C40_Witness ==
    /\ sPc = "collected"
    /\ Len(sResults) = 2
    /\ Cardinality(FailedResults) = 1
    /\ Len(sErrors) = 1
    /\ sSuccess = Some(FALSE)

====
